---- MODULE Spec2Model ----
(***************************************************************************)
(* podimpulse-api: the forecast / release-date optimizer of                *)
(* functions/v1/predict.py, the training feature builder and the artifact  *)
(* persistence of functions/v1/regression.py, the blob helpers they call   *)
(* (utils/azure_blob.py, utils/retry.py), the missing-episode inference    *)
(* (utils/missing_episodes.py) and its update handler                      *)
(* (functions/v1/missing.py), and the cadence validator                    *)
(* (utils/csv_parser.py).                                                  *)
(*                                                                         *)
(* Numbers: pandas/numpy floats are modelled by integers.  A calendar date *)
(* is its day number (day 0 = Thursday 2026-01-01), a boolean column is    *)
(* 0/1 as the scaler sees it, a mean or an even-length median is floored,  *)
(* a sine or cosine is kept in tenths.                                     *)
(***************************************************************************)
EXTENDS Integers, Sequences, FiniteSets, TLC

\* ------------------------------------------------------------------ bounds
\* Forecast horizon.  predict.py runs range(60) and forecast_days=60; the
\* model runs the same loop over a shorter horizon that still reaches lag 14.
ForecastDays == 15
\* Longest stored history handed to the forecaster.
MaxSeedLen == 3
\* Largest explicit target episode count below the horizon.
MaxEpisodes == 2
\* Longest stored series handed to the training feature builder.
MaxTrainLen == 16
\* Largest download count of a training row.
MaxTrainValue == 3

\* np.nan
NaN == -1000000

\* ----------------------------------------------------------------- helpers
Range(s) == {s[k] : k \in 1..Len(s)}

RECURSIVE SumSeq(_)
SumSeq(s) == IF s = <<>> THEN 0 ELSE s[1] + SumSeq(Tail(s))

Column(hist, c) == [k \in 1..Len(hist) |-> hist[k][c]]

\* s.iloc[-n:] if len(s) >= n else s
LastN(s, n) == IF Len(s) >= n THEN SubSeq(s, Len(s) - n + 1, Len(s)) ELSE s

\* s.iloc[-n]
ILocNeg(s, n) == s[Len(s) - n + 1]

MinOf(w) == CHOOSE v \in Range(w) : \A u \in Range(w) : v <= u
MaxOf(w) == CHOOSE v \in Range(w) : \A u \in Range(w) : v >= u
KthSmallest(w, k) ==
  CHOOSE v \in Range(w) :
    /\ Cardinality({j \in 1..Len(w) : w[j] < v}) < k
    /\ Cardinality({j \in 1..Len(w) : w[j] <= v}) >= k
MedianOf(w) ==
  IF Len(w) % 2 = 1 THEN KthSmallest(w, (Len(w) + 1) \div 2)
  ELSE (KthSmallest(w, Len(w) \div 2) + KthSmallest(w, Len(w) \div 2 + 1)) \div 2
MeanOf(w) == SumSeq(w) \div Len(w)

Stat(stat, w) ==
  CASE stat = "min" -> MinOf(w)
    [] stat = "max" -> MaxOf(w)
    [] stat = "median" -> MedianOf(w)

\* ---------------------------------------------------------------- calendar
\* pandas Timestamp.weekday(): Monday = 0.  Day 0 is a Thursday.
Weekday(d) == (d + 3) % 7
\* timetuple().tm_yday, for dates inside 2026.
DayOfYear(d) == (d % 365) + 1
\* strftime('%Y-%m-%d'): the calendar day of a timestamp.
DateStr(d) == d

\* sin(2*pi*num/den) in tenths (Bhaskara's rational approximation).
SinQ(num, den) ==
  LET m == (2 * (num % den))
      h == IF m <= den THEN m ELSE m - den
      a == h * (den - h)
      v == (160 * a) \div (5 * den * den - 4 * a)
  IN IF m <= den THEN v ELSE 0 - v
\* cos(x) = sin(x + pi/2)
CosQ(num, den) == SinQ(4 * num + den, 4 * den)

\* np.sin / np.cos (2 * np.pi * k * day_of_year / 365.25)
FourierSin(k, doy) == SinQ(4 * k * doy, 1461)
FourierCos(k, doy) == CosQ(4 * k * doy, 1461)
\* np.sin / np.cos (2 * np.pi * day_of_week / 7)
DayOfWeekSin(dow) == SinQ(dow, 7)
DayOfWeekCos(dow) == CosQ(dow, 7)

Bool01(b) == IF b THEN 1 ELSE 0

\* ------------------------------------------------------ columns, artifacts
\* model_artifact['target']; regression's default target_col.
TargetCol == "Downloads"
\* Columns of the stored, episode-annotated daily records.
StoredCols == {"Date", "Downloads", "Episodes Released"}

TargetLags == {1, 7, 14}
ReleaseLags == {1, 2, 3, 7}
RollingStats == {"min", "max", "median"}
Harmonics == {1, 2}

LagSuffix(n) ==
  CASE n = 1 -> "1" [] n = 2 -> "2" [] n = 3 -> "3" [] n = 7 -> "7" [] n = 14 -> "14"
TargetLagCol(lag) == "Downloads_lag_" \o LagSuffix(lag)
RollingCol(stat) == "rolling_" \o stat \o "_7"
ExpandingCol == "Downloads_expanding_mean"
FourierSinCol(k) == "fourier_sin_" \o LagSuffix(k)
FourierCosCol(k) == "fourier_cos_" \o LagSuffix(k)
ReleaseLagCol(lag) == "Episodes_Released_lag_" \o LagSuffix(lag)
ReleaseRollingCol == "Episodes_Released_rolling_7"
InterLagCol(lag) == "Episodes_Released_x_lag_" \o LagSuffix(lag)
InterRollingCol == "Episodes_Released_x_rolling_7"
InterWeekendCol == "Episodes_Released_x_is_weekend"
InterDowSinCol == "Episodes_Released_x_day_of_week_sin"
InterDowCosCol == "Episodes_Released_x_day_of_week_cos"

\* The artifacts a training run can have stored: the selected feature list,
\* the scaler's mean and scale and the ridge coefficients per feature, and the
\* intercept.
ArtifactLags ==
  [features |-> <<"Downloads_lag_1", "Downloads_lag_7", "Downloads_lag_14",
                  "Episodes Released", "is_weekend", "rolling_median_7">>,
   coef |-> <<1, -1, 1, 3, -2, 0>>,
   mean |-> <<0, 0, 0, 0, 0, 0>>,
   scale |-> <<1, 1, 2, 1, 1, 1>>,
   intercept |-> 1]
ArtifactReleases ==
  [features |-> <<"Episodes Released", "Episodes_Released_lag_1",
                  "Episodes_Released_lag_7", "Episodes_Released_rolling_7",
                  "Episodes_Released_x_lag_1", "Episodes_Released_x_rolling_7",
                  "Episodes_Released_x_is_weekend", "is_weekend",
                  "day_of_week_sin", "day_of_week_cos",
                  "Episodes_Released_x_day_of_week_sin",
                  "Episodes_Released_x_day_of_week_cos">>,
   coef |-> <<4, 2, 1, 1, 3, 1, 2, -1, 1, 1, 1, 1>>,
   mean |-> <<0, 0, 0, 1, 0, 0, 0, 0, 0, 0, 0, 0>>,
   scale |-> <<1, 1, 1, 1, 1, 1, 1, 1, 1, 1, 1, 1>>,
   intercept |-> 20]
ArtifactSeasonal ==
  [features |-> <<"fourier_sin_1", "fourier_cos_1", "fourier_sin_2",
                  "fourier_cos_2", "rolling_min_7", "rolling_max_7",
                  "Downloads_expanding_mean", "Episodes_Released_lag_2",
                  "Episodes_Released_lag_3", "Episodes_Released_x_lag_2">>,
   coef |-> <<1, 1, 1, -1, 1, -1, 1, 2, 1, 1>>,
   mean |-> <<0, 0, 0, 0, 0, 0, 1, 0, 0, 0>>,
   scale |-> <<1, 1, 1, 1, 1, 1, 1, 1, 1, 1>>,
   intercept |-> 5]
Artifacts == {ArtifactLags, ArtifactReleases, ArtifactSeasonal}

\* scaler.transform followed by model.predict on one row.
ModelPredict(art, row) ==
  art.intercept +
  SumSeq([k \in 1..Len(art.features) |->
            art.coef[k] * ((row[art.features[k]] - art.mean[k]) \div art.scale[k])])

\* A daily stored history: consecutive dates, ascending.
SeedRow(date, downloads, released) ==
  [c \in StoredCols |->
     CASE c = "Date" -> date
       [] c = "Downloads" -> downloads
       [] c = "Episodes Released" -> released]
StartDates == {0, 3}
SeedDownloads(k) == 10 + ((3 * k) % 5)
\* The stored "data" of the podcast: none, or 1..MaxSeedLen daily rows with
\* at most one recorded release.
Seeds ==
  {<<>>} \cup
  UNION {{[k \in 1..n |-> SeedRow(d0 + k - 1, SeedDownloads(k), Bool01(k = rel))] :
            d0 \in StartDates, rel \in {0, n}} : n \in 1..MaxSeedLen}

\* request_data.get('release_dates', []): explicit release dates, in and out
\* of the horizon, with and without repeats.
ReleaseDateLists ==
  {<<>>, <<5>>, <<5, 5>>, <<6, 5>>, <<40>>, <<5, 40>>, <<1, 6>>}

\* request_data.get('episodes'): absent ({}), or a target count ({n}).
EpisodesChoices ==
  {{}} \cup {{n} : n \in 0..MaxEpisodes} \cup {{ForecastDays + 1}}

\* df = pd.DataFrame(data); for col in features: if col not in df.columns: df[col] = 0
WithFeatureCols(data, features) ==
  [k \in 1..Len(data) |->
     [c \in StoredCols \cup Range(features) |->
        IF c \in DOMAIN data[k] THEN data[k][c] ELSE 0]]

\* ----------------------------------------------------------- forecast step
\* Mutant of NextDate: the date is not advanced.
NextDate_NotAdvanced(last_row) == last_row["Date"]

\* pd.to_datetime(last_row['Date']) + pd.Timedelta(days=1)
NextDate(last_row) == last_row["Date"] + 1

\* date_str in release_dates_set or (release_indices and i in release_indices)
ReleaseIndicator(date_str, idx, dates_set, indices) ==
  IF date_str \in dates_set \/ (indices # {} /\ idx \in indices) THEN 1 ELSE 0

\* Mutant of TargetLagValue: the lag reads one row too far back.
TargetLagValue_OffByOne(hist, lag) ==
  IF Len(hist) >= lag + 1 THEN ILocNeg(Column(hist, TargetCol), lag + 1) ELSE NaN

\* history[target_col].iloc[-lag] if len(history) >= lag else np.nan
TargetLagValue(hist, lag) ==
  IF Len(hist) >= lag THEN ILocNeg(Column(hist, TargetCol), lag) ELSE NaN

\* getattr(window, stat)() over the last 7 target values (all, if fewer)
RollingValue(hist, stat) == Stat(stat, LastN(Column(hist, TargetCol), 7))

\* history[target_col].expanding().mean().iloc[-1]
ExpandingValue(hist) == MeanOf(Column(hist, TargetCol))

\* history['Episodes Released'].iloc[-lag] if len(history) >= lag else 0
ReleaseLagValue(hist, lag) ==
  IF Len(hist) >= lag THEN ILocNeg(Column(hist, "Episodes Released"), lag) ELSE 0

\* window.sum() over the last 7 release indicators (all, if fewer)
ReleaseRollingValue(hist) == SumSeq(LastN(Column(hist, "Episodes Released"), 7))

\* The value one forecast step gives column c of new_row, before the
\* prediction: the columns the loop assigns are recomputed, every other
\* column keeps the value copied from last_row.
StepValue(c, hist, last_row, pred_date, released) ==
  CASE c = "Date" -> pred_date
    [] c = "Episodes Released" -> released
    [] \E lag \in TargetLags : c = TargetLagCol(lag) ->
         TargetLagValue(hist, CHOOSE lag \in TargetLags : c = TargetLagCol(lag))
    [] \E stat \in RollingStats : c = RollingCol(stat) ->
         RollingValue(hist, CHOOSE stat \in RollingStats : c = RollingCol(stat))
    [] c = ExpandingCol -> ExpandingValue(hist)
    [] c = "is_weekend" -> Bool01(Weekday(pred_date) >= 5)
    [] \E k \in Harmonics : c = FourierSinCol(k) ->
         FourierSin(CHOOSE k \in Harmonics : c = FourierSinCol(k), DayOfYear(pred_date))
    [] \E k \in Harmonics : c = FourierCosCol(k) ->
         FourierCos(CHOOSE k \in Harmonics : c = FourierCosCol(k), DayOfYear(pred_date))
    [] \E lag \in ReleaseLags : c = ReleaseLagCol(lag) ->
         ReleaseLagValue(hist, CHOOSE lag \in ReleaseLags : c = ReleaseLagCol(lag))
    [] c = ReleaseRollingCol -> ReleaseRollingValue(hist)
    [] OTHER -> last_row[c]

\* for col in features: if col not in new_row or pd.isnull(new_row[col]): new_row[col] = 0
FillMissing(c, v, features) == IF c \in Range(features) /\ v = NaN THEN 0 ELSE v

\* One iteration of the forecast loop: the completed row for the day after
\* the last row of hist, with the prediction stored as its target value.
ForecastRow(art, hist, idx, dates_set, indices) ==
  LET last_row == hist[Len(hist)]
      pred_date == NextDate(last_row)
      released == ReleaseIndicator(DateStr(pred_date), idx, dates_set, indices)
      new_row == [c \in DOMAIN last_row |->
                    FillMissing(c, StepValue(c, hist, last_row, pred_date, released),
                                art.features)]
  IN [new_row EXCEPT ![TargetCol] = ModelPredict(art, new_row)]

\* history = pd.concat([history, pd.DataFrame([new_row])], ignore_index=True)
AppendRow(hist, new_row) == Append(hist, new_row)

\* ------------------------------------------------- predict handler (POST)
VARIABLES
  pc,                       \* position of the predict request
  data,                     \* stored json_data["data"] of the podcast
  artifact,                 \* the loaded model artifact
  episodes,                 \* request 'episodes' ({} = None)
  release_dates,            \* request 'release_dates'
  df,                       \* the seed frame
  history,                  \* first pass: the growing history
  predicted_rows,           \* first pass rows; the rows returned
  candidate_dates,          \* (i, date_str, y_pred) of the first pass
  i,                        \* loop index of the running pass
  history_df,               \* second pass: the growing history
  rerun_predicted_rows,     \* second pass rows
  optimized_release_indices,
  optimized_release_dates,
  response

predictVars ==
  <<pc, data, artifact, episodes, release_dates, df, history, predicted_rows,
    candidate_dates, i, history_df, rerun_predicted_rows,
    optimized_release_indices, optimized_release_dates, response>>

\* Training feature builder (regression.py), run on a stored series and on a
\* copy of it with one later target value changed.
VARIABLES
  fpc,                      \* "loaded" | "built"
  train_target,             \* df[target_col], in stored (date) order
  twin_target,              \* the same series with one value changed
  train_features,           \* the engineered target features per row
  twin_features

featureVars == <<fpc, train_target, twin_target, train_features, twin_features>>

\* Two training requests and one forecast request on the same podcast, and
\* the model blob "<podcast_id>_ridge_model.joblib" they share.
VARIABLES
  model_blob,               \* the stored blob: exists, bytes, last writer
  tpc,                      \* position of each training request
  attempt,                  \* attempt number of the retried save
  buffer,                   \* io.BytesIO: the serialized artifact
  buffer_pos,               \* io.BytesIO: the read position
  uploaded,                 \* what the request's successful upload stored
  failed_step,              \* the training step that raised, or "none"
  tstatus,                  \* status code returned (0: none yet)
  lpc,                      \* position of the forecast request's model load
  lattempt,                 \* attempt number of the retried load
  model_bytes,              \* the bytes the forecast request downloaded
  model_artifact,           \* the artifact joblib.load returned
  lstatus                   \* outcome of the load (0: none yet)

trainVars ==
  <<model_blob, tpc, attempt, buffer, buffer_pos, uploaded, failed_step,
    tstatus, lpc, lattempt, model_bytes, model_artifact, lstatus>>

\* Missing-episode inference on an annotated series, and the update requests
\* (missing POST) on the stored result.
VARIABLES
  mpc,                      \* "annotated" | "stored"
  episode_dates,            \* the pd.Series of known episode dates
  downloads_df,             \* the annotated rows handed to the inference
  inferred,                 \* the rows the inference returned
  stored_data,              \* json_data["data"] of the instance
  data_before,              \* json_data["data"] when the last POST arrived
  updates_body,             \* body 'updates' of the last POST
  mstatus,                  \* status code of the last POST (0: none yet)
  posts                     \* number of POSTs handled

missingVars ==
  <<mpc, episode_dates, downloads_df, inferred, stored_data, data_before,
    updates_body,
    mstatus, posts>>

\* One invocation of a function wrapped by retry_with_backoff.
VARIABLES
  rpc,                      \* "running" | "returned" | "raised"
  wrapped,                  \* the wrapped function
  retry_args,               \* max_attempts, initial_delay, backoff_factor
  payload_utf8,             \* whether the blob's bytes decode as UTF-8
  rattempt,                 \* wrapper: attempt
  delay,                    \* wrapper: delay
  calls,                    \* outcome of each call of the wrapped function
  sleeps,                   \* argument of each time.sleep
  exc_out                   \* the exception the wrapper let out, or "none"

retryVars ==
  <<rpc, wrapped, retry_args, payload_utf8, rattempt, delay, calls, sleeps,
    exc_out>>

\* validate_downloads_dataframe on a parsed CSV.
VARIABLES
  vpc,                      \* "parsed" | "validated"
  csv_rows,                 \* downloads_df: rows of Date (day or NaT), Downloads
  frequency_mode,           \* "strict" | "resample_daily"
  validated                 \* the error raised, or the frame returned

validateVars == <<vpc, csv_rows, frequency_mode, validated>>

\* perform_spike_clustering on a download series, or determine_optimal_clusters
\* called on its own.
VARIABLES
  spc,                      \* position in the call
  entry_point,              \* the function the caller invoked
  spike_series,             \* downloads_df["Downloads"], one value per day
  max_clusters,             \* the max_clusters argument
  n_samples,                \* rows of the feature array given to KMeans
  ssd,                      \* inertia of each fit so far
  optimal_clusters,         \* return value of determine_optimal_clusters
  spike_out                 \* error raised, or the is_spike / is_anomalous rows

spikesVars == <<spc, entry_point, spike_series, max_clusters, n_samples, ssd, optimal_clusters, spike_out>>

\* The create-podcast POST of initialize, and the index blobs of its title
\* and rss_url.
VARIABLES
  ipc,                      \* position in the handler
  request_body,             \* what req.get_json() gives
  index_store,              \* index name -> podcast_id stored in its entry
  index_before,             \* the index entries when the handler looked them up
  podcast_saved,            \* the new podcast's metadata blob exists
  title_reserved,           \* title_reserved
  rss_reserved,             \* rss_reserved
  iattempt,                 \* attempt number inside retry_with_backoff
  istatus,                  \* status code of the response, 0 before it
  request_writes            \* uploads and deletions the handler has made

createVars == <<ipc, request_body, index_store, index_before, podcast_saved, title_reserved, rss_reserved, iattempt, istatus, request_writes>>

\* The DELETE of podcast_resource on one podcast, its blobs and the index
\* entries of its title and rss_url.
VARIABLES
  dpc,                      \* position in the handler
  podcast_blobs,            \* which of the podcast's candidate blobs exist
  del_index,                \* index name -> owner of the entry
  old_known,                \* index names whose value the loaded blob gave
  dattempt,                 \* attempt number of the retried blob deletion
  blob_report,              \* what delete_podcast_blob reported to the handler
  dremoved,                 \* index entries the handler deleted, with their owner
  dstatus                   \* status code of the response, 0 before it

deleteVars == <<dpc, podcast_blobs, del_index, old_known, dattempt, blob_report, dremoved, dstatus>>

\* A predict GET for the podcast of the predict POST.
VARIABLES
  get_response              \* response of the GET ([status |-> 0]: none yet)

predictGetVars == <<get_response>>

\* An impact GET, and the podcast's stored record.
VARIABLES
  apc,                      \* position in the handler
  impact_method,            \* req.method
  impact_podcast_id,        \* route parameter podcast_id ("" when missing)
  impact_record,            \* the blob <podcast_id>.json: "none" or its data rows
  impact_json,              \* json_data, what load_json_from_blob returned
  impact_status             \* status code of the response, 0 before it

impactVars == <<apc, impact_method, impact_podcast_id, impact_record, impact_json, impact_status>>

\* One training request, followed through the row accounting of its
\* pipeline: cleaning, cross-validated selection and tuning, split.
VARIABLES
  qpc,                      \* position in the handler
  split_data,               \* stored json_data["data"]: rows of Date, Downloads
  split_clean,              \* df after dropna, in stored order
  cv_folds,                 \* folds of the cross-validation run (0: none yet)
  split_train,              \* rows of X_train / y_train
  split_test,               \* rows of X_test / y_test
  qstatus                   \* status code of the response, 0 before it

splitVars == <<qpc, split_data, split_clean, cv_folds, split_train, split_test, qstatus>>

\* Two create-podcast POSTs that run concurrently and share a title, an
\* rss_url or both, with the index blobs they compete for.
VARIABLES
  cpc,                      \* position of each request in the handler
  cattempt,                 \* attempt number of the retried call in progress
  creserved,                \* per request: the indexes it reserved
  crollback,                \* per request: index entries still to delete
  cstatus,                  \* status code of each response, 0 before it
  cindex,                   \* index blob (name, value) -> podcast_id or "none"
  cshares,                  \* what the two requests have in common
  csaved                    \* requests whose podcast blob was saved

raceVars == <<cpc, cattempt, creserved, crollback, cstatus, cindex, cshares, csaved>>

vars == <<predictVars, featureVars, trainVars, missingVars, retryVars, validateVars, spikesVars, createVars, deleteVars, predictGetVars, impactVars, splitVars, raceVars>>

\* What each group of handlers leaves alone.
exceptPredict == <<featureVars, trainVars, missingVars, retryVars, validateVars, spikesVars, createVars, deleteVars, predictGetVars, impactVars, splitVars, raceVars>>
exceptFeatures == <<predictVars, trainVars, missingVars, retryVars, validateVars, spikesVars, createVars, deleteVars, predictGetVars, impactVars, splitVars, raceVars>>
exceptTrain == <<predictVars, featureVars, missingVars, retryVars, validateVars, spikesVars, createVars, deleteVars, predictGetVars, impactVars, splitVars, raceVars>>
exceptMissing == <<predictVars, featureVars, trainVars, retryVars, validateVars, spikesVars, createVars, deleteVars, predictGetVars, impactVars, splitVars, raceVars>>
exceptRetry == <<predictVars, featureVars, trainVars, missingVars, validateVars, spikesVars, createVars, deleteVars, predictGetVars, impactVars, splitVars, raceVars>>
exceptValidate == <<predictVars, featureVars, trainVars, missingVars, retryVars, spikesVars, createVars, deleteVars, predictGetVars, impactVars, splitVars, raceVars>>
exceptSpikes == <<predictVars, featureVars, trainVars, missingVars, retryVars, validateVars, createVars, deleteVars, predictGetVars, impactVars, splitVars, raceVars>>
exceptCreate == <<predictVars, featureVars, trainVars, missingVars, retryVars, validateVars, spikesVars, deleteVars, predictGetVars, impactVars, splitVars, raceVars>>
exceptDelete == <<predictVars, featureVars, trainVars, missingVars, retryVars, validateVars, spikesVars, createVars, predictGetVars, impactVars, splitVars, raceVars>>
exceptPredictGet == <<predictVars, featureVars, trainVars, missingVars, retryVars, validateVars, spikesVars, createVars, deleteVars, impactVars, splitVars, raceVars>>
exceptImpact == <<predictVars, featureVars, trainVars, missingVars, retryVars, validateVars, spikesVars, createVars, deleteVars, predictGetVars, splitVars, raceVars>>
exceptSplit == <<predictVars, featureVars, trainVars, missingVars, retryVars, validateVars, spikesVars, createVars, deleteVars, predictGetVars, impactVars, raceVars>>
exceptRace == <<predictVars, featureVars, trainVars, missingVars, retryVars, validateVars, spikesVars, createVars, deleteVars, predictGetVars, impactVars, splitVars>>

NoBody == [kind |-> "none", updates |-> <<>>]

MissingIdle ==
  /\ mpc = "idle"
  /\ episode_dates = [index |-> <<>>, values |-> <<>>]
  /\ downloads_df = <<>>
  /\ inferred = <<>>
  /\ stored_data = <<>>
  /\ data_before = <<>>
  /\ updates_body = NoBody
  /\ mstatus = 0
  /\ posts = 0

RetryIdle ==
  /\ rpc = "idle"
  /\ wrapped = "none"
  /\ retry_args = [max_attempts |-> 3, initial_delay |-> 1, backoff_factor |-> 2]
  /\ payload_utf8 = TRUE
  /\ rattempt = 1
  /\ delay = 1
  /\ calls = <<>>
  /\ sleeps = <<>>
  /\ exc_out = "none"

ValidateIdle ==
  /\ vpc = "idle"
  /\ csv_rows = <<>>
  /\ frequency_mode = "strict"
  /\ validated = [error |-> "none", rows |-> <<>>]

NoSpikeOutput == [error |-> "none", is_spike |-> {}, is_anomalous |-> {}]

SpikesIdle ==
  /\ spc = "idle"
  /\ entry_point = "none"
  /\ spike_series = <<>>
  /\ max_clusters = 1
  /\ n_samples = 0
  /\ ssd = <<>>
  /\ optimal_clusters = 0
  /\ spike_out = NoSpikeOutput

NoIndexEntries == [index_name \in {"title", "rss"} |-> "none"]

CreateIdle ==
  /\ ipc = "idle"
  /\ request_body = "none"
  /\ index_store = NoIndexEntries
  /\ index_before = NoIndexEntries
  /\ podcast_saved = FALSE
  /\ title_reserved = FALSE
  /\ rss_reserved = FALSE
  /\ iattempt = 1
  /\ istatus = 0
  /\ request_writes = {}

DeleteIdle ==
  /\ dpc = "idle"
  /\ podcast_blobs = {}
  /\ del_index = [index_name \in {"title", "rss"} |-> "none"]
  /\ old_known = {}
  /\ dattempt = 1
  /\ blob_report = "none"
  /\ dremoved = {}
  /\ dstatus = 0

PredictGetIdle == get_response = [status |-> 0]

ImpactIdle ==
  /\ apc = "idle"
  /\ impact_method = "GET"
  /\ impact_podcast_id = ""
  /\ impact_record = [exists |-> FALSE, data |-> <<>>]
  /\ impact_json = [type |-> "none"]
  /\ impact_status = 0

SplitIdle ==
  /\ qpc = "idle"
  /\ split_data = <<>>
  /\ split_clean = <<>>
  /\ cv_folds = 0
  /\ split_train = <<>>
  /\ split_test = <<>>
  /\ qstatus = 0

RaceIdle ==
  /\ cpc = <<>>
  /\ cattempt = <<>>
  /\ creserved = <<>>
  /\ crollback = <<>>
  /\ cstatus = <<>>
  /\ cindex = <<>>
  /\ cshares = "none"
  /\ csaved = {}

NoResponse == [status |-> 0]

\* set(pd.to_datetime(release_dates).strftime('%Y-%m-%d'))
ReleaseDatesSet(dates) == {DateStr(dates[k]) : k \in 1..Len(dates)}

\* Mutant of NeedsOptimization: >= in place of >.
NeedsOptimization_OrEqual(eps, dates_set) == \E e \in eps : e >= Cardinality(dates_set)

\* episodes is not None and episodes > len(release_dates_set)
NeedsOptimization(eps, dates_set) == \E e \in eps : e > Cardinality(dates_set)

\* if auto_count_episodes: episodes = sum(1 for row in predicted_rows if row.get('Episodes Released', 0) == 1)
EpisodesAfterCount(eps, dates, rows) ==
  IF eps = {} /\ dates = <<>>
  THEN {Cardinality({k \in 1..Len(rows) : rows[k]["Episodes Released"] = 1})}
  ELSE eps

\* Mutant of CandidateRank: the sort is ascending (reverse=True forgotten).
CandidateRank_Ascending(cands, k) ==
  1 + Cardinality({j \in 1..Len(cands) :
                     \/ cands[j].y_pred < cands[k].y_pred
                     \/ (cands[j].y_pred = cands[k].y_pred /\ j < k)})

\* sorted(candidate_dates, key=lambda x: x[2], reverse=True): by predicted
\* value descending, equal values in their original order.
CandidateRank(cands, k) ==
  1 + Cardinality({j \in 1..Len(cands) :
                     \/ cands[j].y_pred > cands[k].y_pred
                     \/ (cands[j].y_pred = cands[k].y_pred /\ j < k)})
SortCandidates(cands) ==
  [r \in 1..Len(cands) |-> cands[CHOOSE k \in 1..Len(cands) : CandidateRank(cands, k) = r]]

\* [x[0] for x in candidate_dates_sorted[:n_to_add]]
IndicesToSet(cands, n_to_add) ==
  LET sorted == SortCandidates(cands)
      n == IF n_to_add <= Len(sorted) THEN n_to_add ELSE Len(sorted)
  IN [r \in 1..n |-> sorted[r].i]

\* Mutant of RerunSeed: the second pass continues the first pass's history.
RerunSeed_FirstPassHistory(seed, first_pass_history) == first_pass_history

\* df.copy(), the history the second pass starts from
RerunSeed(seed, first_pass_history) == seed

\* sorted(list(optimized_release_dates))
SortedList(S) ==
  [r \in 1..Cardinality(S) |-> CHOOSE d \in S : Cardinality({e \in S : e < d}) = r - 1]

PredictInit ==
  /\ pc = "start"
  /\ data \in Seeds
  /\ artifact \in Artifacts
  /\ episodes \in EpisodesChoices
  /\ release_dates \in ReleaseDateLists
  /\ df = <<>>
  /\ history = <<>>
  /\ predicted_rows = <<>>
  /\ candidate_dates = <<>>
  /\ i = 0
  /\ history_df = <<>>
  /\ rerun_predicted_rows = <<>>
  /\ optimized_release_indices = {}
  /\ optimized_release_dates = {}
  /\ response = NoResponse

\* Lines 77-90: no data -> 404; else the seed frame with the feature columns.
PredictStart ==
  /\ UNCHANGED exceptPredict
  /\ pc = "start"
  /\ IF data = <<>>
     THEN /\ pc' = "done"
          /\ response' = [status |-> 404]
          /\ UNCHANGED <<df, history>>
     ELSE /\ pc' = "forecast"
          /\ df' = WithFeatureCols(data, artifact.features)
          /\ history' = df'
          /\ UNCHANGED response
  /\ UNCHANGED <<data, artifact, episodes, release_dates, predicted_rows,
                 candidate_dates, i, history_df, rerun_predicted_rows,
                 optimized_release_indices, optimized_release_dates>>

\* Lines 152-220: one iteration of the first pass.
ForecastStep ==
  /\ UNCHANGED exceptPredict
  /\ pc = "forecast"
  /\ i < ForecastDays
  /\ LET dates_set == ReleaseDatesSet(release_dates)
         new_row == ForecastRow(artifact, history, i, dates_set, {})
         date_str == DateStr(new_row["Date"])
     IN /\ predicted_rows' = Append(predicted_rows, new_row)
        /\ history' = AppendRow(history, new_row)
        /\ candidate_dates' =
             IF NeedsOptimization(episodes, dates_set) /\ date_str \notin dates_set
             THEN Append(candidate_dates,
                         [i |-> i, date_str |-> date_str, y_pred |-> new_row[TargetCol]])
             ELSE candidate_dates
  /\ i' = i + 1
  /\ UNCHANGED <<pc, data, artifact, episodes, release_dates, df, history_df,
                 rerun_predicted_rows, optimized_release_indices,
                 optimized_release_dates, response>>

\* Lines 221-246 up to the call of _run_forecast: rank the candidates, mark
\* the selected days and start the second pass.
Optimize ==
  /\ UNCHANGED exceptPredict
  /\ pc = "forecast"
  /\ i = ForecastDays
  /\ LET dates_set == ReleaseDatesSet(release_dates)
         eps == EpisodesAfterCount(episodes, release_dates, predicted_rows)
     IN /\ NeedsOptimization(eps, dates_set)
        /\ LET n_to_add == (CHOOSE e \in eps : TRUE) - Cardinality(dates_set)
               indices_to_set == IndicesToSet(candidate_dates, n_to_add)
               marked == [k \in 1..Len(predicted_rows) |->
                            IF (k - 1) \in Range(indices_to_set)
                            THEN [predicted_rows[k] EXCEPT !["Episodes Released"] = 1]
                            ELSE predicted_rows[k]]
           IN /\ predicted_rows' = marked
              /\ optimized_release_indices' = Range(indices_to_set)
              /\ optimized_release_dates' =
                   {DateStr(marked[idx + 1]["Date"]) : idx \in Range(indices_to_set)}
        /\ episodes' = eps
  /\ history_df' = RerunSeed(df, history)
  /\ rerun_predicted_rows' = <<>>
  /\ i' = 0
  /\ pc' = "rerun"
  /\ UNCHANGED <<data, artifact, release_dates, df, history, candidate_dates,
                 response>>

\* Lines 95-150: one iteration of _run_forecast.
RerunStep ==
  /\ UNCHANGED exceptPredict
  /\ pc = "rerun"
  /\ i < ForecastDays
  /\ LET new_row == ForecastRow(artifact, history_df, i,
                                ReleaseDatesSet(release_dates),
                                optimized_release_indices)
     IN /\ rerun_predicted_rows' = Append(rerun_predicted_rows, new_row)
        /\ history_df' = AppendRow(history_df, new_row)
  /\ i' = i + 1
  /\ UNCHANGED <<pc, data, artifact, episodes, release_dates, df, history,
                 predicted_rows, candidate_dates, optimized_release_indices,
                 optimized_release_dates, response>>

\* Lines 247-269: the response, from the rows of the last pass run.
BuildResponse(rows, eps, dates_set, opt_dates) ==
  [status |-> 200,
   result |-> rows,
   total_downloads |-> SumSeq(Column(rows, TargetCol)),
   keys |-> {"message", "result", "total_downloads"} \cup
            (IF NeedsOptimization(eps, dates_set)
             THEN {"optimized_release_dates"} ELSE {}),
   optimized_release_dates |->
            IF NeedsOptimization(eps, dates_set) THEN SortedList(opt_dates) ELSE <<>>]

\* Single pass: lines 221-225 find nothing to optimize, lines 247-269 answer.
RespondSinglePass ==
  /\ UNCHANGED exceptPredict
  /\ pc = "forecast"
  /\ i = ForecastDays
  /\ LET dates_set == ReleaseDatesSet(release_dates)
         eps == EpisodesAfterCount(episodes, release_dates, predicted_rows)
     IN /\ ~NeedsOptimization(eps, dates_set)
        /\ episodes' = eps
        /\ response' = BuildResponse(predicted_rows, eps, dates_set,
                                     optimized_release_dates)
  /\ pc' = "done"
  /\ UNCHANGED <<data, artifact, release_dates, df, history, predicted_rows,
                 candidate_dates, i, history_df, rerun_predicted_rows,
                 optimized_release_indices, optimized_release_dates>>

\* After the second pass: predicted_rows = _run_forecast(...), lines 247-269.
RespondOptimized ==
  /\ UNCHANGED exceptPredict
  /\ pc = "rerun"
  /\ i = ForecastDays
  /\ predicted_rows' = rerun_predicted_rows
  /\ response' = BuildResponse(rerun_predicted_rows, episodes,
                               ReleaseDatesSet(release_dates),
                               optimized_release_dates)
  /\ pc' = "done"
  /\ UNCHANGED <<data, artifact, episodes, release_dates, df, history,
                 candidate_dates, i, history_df, rerun_predicted_rows,
                 optimized_release_indices, optimized_release_dates>>

\* Lines 270-272: a GET for the same podcast, after the POST was answered
PredictGet ==
  /\ pc = "done"
  /\ get_response = [status |-> 0]
  /\ get_response' = [status |-> 501]
  /\ UNCHANGED exceptPredictGet

PredictNext ==
  \/ PredictStart
  \/ ForecastStep
  \/ Optimize
  \/ RerunStep
  \/ RespondSinglePass
  \/ RespondOptimized
  \/ PredictGet

FeaturesIdle ==
  /\ fpc = "idle"
  /\ train_target = <<>>
  /\ twin_target = <<>>
  /\ train_features = <<>>
  /\ twin_features = <<>>

Trainers == {"t1", "t2"}

TrainIdle ==
  /\ model_blob = [exists |-> FALSE, bytes |-> <<>>, writer |-> "none"]
  /\ tpc = [t \in Trainers |-> "idle"]
  /\ attempt = [t \in Trainers |-> 1]
  /\ buffer = [t \in Trainers |-> <<>>]
  /\ buffer_pos = [t \in Trainers |-> 0]
  /\ uploaded = [t \in Trainers |-> {}]
  /\ failed_step = [t \in Trainers |-> "none"]
  /\ tstatus = [t \in Trainers |-> 0]
  /\ lpc = "idle"
  /\ lattempt = 1
  /\ model_bytes = {}
  /\ model_artifact = {}
  /\ lstatus = 0

InitPredict == PredictInit /\ FeaturesIdle /\ TrainIdle /\ MissingIdle /\ RetryIdle /\ ValidateIdle /\ SpikesIdle /\ CreateIdle /\ DeleteIdle /\ PredictGetIdle /\ ImpactIdle /\ SplitIdle /\ RaceIdle

SpecPredict == InitPredict /\ [][PredictNext]_vars

\* ----------------------------------------------------- forecast properties
SeedLastDate == data[Len(data)]["Date"]
RequestDates == ReleaseDatesSet(release_dates)
HorizonDates == {SeedLastDate + k : k \in 1..ForecastDays}
Answered == pc = "done" /\ response.status = 200
Optimized == Answered /\ "optimized_release_dates" \in response.keys

\* h rows, the first dated the day after the seed's last row, each later row
\* one day after the previous, the last dated seed's last date + h.
DailyFromSeed(rows) ==
  /\ Len(rows) = ForecastDays
  /\ rows[1]["Date"] = SeedLastDate + 1
  /\ \A k \in 2..Len(rows) : rows[k]["Date"] = rows[k - 1]["Date"] + 1
  /\ rows[Len(rows)]["Date"] = SeedLastDate + ForecastDays

\* C1: a forecast over horizon h from a non-empty seed returns exactly h rows
\* dated seed's last date + 1, ..., + h, one day apart; so does the completed
\* first pass when an optimization re-run follows it.
C1_ForecastIsDailyOverHorizon ==
  /\ Answered => DailyFromSeed(response.result)
  /\ pc = "rerun" => DailyFromSeed(predicted_rows)

C1_Witness == Optimized /\ Len(response.result) = ForecastDays

\* The candidate days of the first pass: the horizon days not in R.
CandidateDays == HorizonDates \ RequestDates
FirstPassValue(d) ==
  LET c == CHOOSE k \in 1..Len(candidate_dates) : candidate_dates[k].date_str = d
  IN candidate_dates[c].y_pred
Shortfall == (CHOOSE e \in episodes : TRUE) - Cardinality(RequestDates)
TopOfCandidates(selected) ==
  /\ selected \subseteq CandidateDays
  /\ \A d \in selected : \A u \in CandidateDays \ selected :
       FirstPassValue(u) <= FirstPassValue(d)

\* C2 as stated: with E > |R| the response lists exactly N = E - |R| distinct
\* horizon dates outside R, none outranked by an unselected candidate.
C2_ExactlyShortfallDates ==
  Optimized =>
    LET listed == response.optimized_release_dates
    IN /\ Len(listed) = Shortfall
       /\ Cardinality(Range(listed)) = Len(listed)
       /\ TopOfCandidates(Range(listed))

\* C2 amended: the response lists min(N, number of candidate days) distinct
\* horizon dates outside R, none outranked by an unselected candidate.
C2_TopShortfallOfCandidates ==
  Optimized =>
    LET listed == response.optimized_release_dates
        n == IF Shortfall <= Cardinality(CandidateDays)
             THEN Shortfall ELSE Cardinality(CandidateDays)
    IN /\ Len(listed) = n
       /\ Cardinality(Range(listed)) = Len(listed)
       /\ TopOfCandidates(Range(listed))

C2_Witness ==
  /\ Optimized
  /\ Shortfall = 2
  /\ Len(response.optimized_release_dates) = 2
  /\ \E u \in CandidateDays \ Range(response.optimized_release_dates) :
       \E d \in Range(response.optimized_release_dates) :
         FirstPassValue(u) < FirstPassValue(d)

\* C3: when the target episode count equals |R| there is no candidate
\* ranking and no second pass; the rows and total returned are the first
\* pass's, unchanged, and the response has no optimized_release_dates.
C3_EqualCountReturnsSinglePass ==
  /\ (pc = "rerun" => episodes # {Cardinality(RequestDates)})
  /\ (Answered /\ episodes = {Cardinality(RequestDates)}) =>
       /\ candidate_dates = <<>>
       /\ rerun_predicted_rows = <<>>
       /\ history_df = <<>>
       /\ optimized_release_indices = {}
       /\ history = df \o predicted_rows
       /\ response.result = predicted_rows
       /\ response.total_downloads = SumSeq(Column(predicted_rows, TargetCol))
       /\ "optimized_release_dates" \notin response.keys

C3_Witness ==
  /\ Answered
  /\ episodes = {2}
  /\ Cardinality(RequestDates) = 2
  /\ \E k \in 1..ForecastDays : response.result[k]["Episodes Released"] = 1

\* C4: the second pass starts from the seed history, and the returned rows
\* carry release indicator 1 exactly on the explicit release dates and the
\* selected candidate dates, 0 on every other forecast day.
C4_RerunFromSeedWithSelectedReleases ==
  /\ pc = "rerun" => history_df = df \o rerun_predicted_rows
  /\ Optimized =>
       \A k \in 1..Len(response.result) :
         response.result[k]["Episodes Released"] =
           (IF response.result[k]["Date"] \in
                 RequestDates \cup Range(response.optimized_release_dates)
            THEN 1 ELSE 0)

C4_Witness ==
  /\ Optimized
  /\ Len(response.optimized_release_dates) = 1
  /\ RequestDates \cap HorizonDates # {}
  /\ \E k \in 1..ForecastDays :
       /\ response.result[k]["Date"] \in Range(response.optimized_release_dates)
       /\ response.result[k]["Episodes Released"] = 1
  /\ \E k \in 1..ForecastDays : response.result[k]["Episodes Released"] = 0

\* Rows fed forward: row j's lag-1 is row j-1's prediction, and its lag-k
\* (k = 7, 14, k < j) is the prediction made k steps earlier.
LagsFeedForward(rows) ==
  \A j \in 1..Len(rows) : \A lag \in TargetLags :
    (TargetLagCol(lag) \in DOMAIN rows[j] /\ lag < j) =>
      rows[j][TargetLagCol(lag)] = rows[j - lag][TargetCol]

\* C5: every completed row, with the prediction as its target value, is in
\* the history before the next step; the next steps' lag features read it.
C5_PredictionsFeedForward ==
  /\ pc = "forecast" => (history = df \o predicted_rows /\ LagsFeedForward(predicted_rows))
  /\ pc = "rerun" => (history_df = df \o rerun_predicted_rows
                       /\ LagsFeedForward(rerun_predicted_rows))
  /\ Answered => LagsFeedForward(response.result)

C5_Witness ==
  /\ pc = "forecast"
  /\ Len(predicted_rows) = ForecastDays
  /\ TargetLagCol(14) \in DOMAIN predicted_rows[1]
  /\ predicted_rows[ForecastDays][TargetLagCol(14)] =
       predicted_rows[ForecastDays - 14][TargetCol]
  /\ predicted_rows[ForecastDays][TargetLagCol(14)] # 0
  /\ predicted_rows[ForecastDays][TargetLagCol(1)] # predicted_rows[ForecastDays][TargetLagCol(7)]

\* The value regression.py's feature builder gives a release-interaction or
\* day-of-week column of a row dated pred_date with release indicator
\* released, after the rows of hist (regression.py lines 117-144).
IsInteractionCol(c) ==
  \/ \E lag \in ReleaseLags : c = InterLagCol(lag)
  \/ c \in {InterRollingCol, InterWeekendCol, "day_of_week_sin", "day_of_week_cos",
            InterDowSinCol, InterDowCosCol}
InteractionValue(c, hist, pred_date, released) ==
  CASE \E lag \in ReleaseLags : c = InterLagCol(lag) ->
         released * ReleaseLagValue(hist, CHOOSE lag \in ReleaseLags : c = InterLagCol(lag))
    [] c = InterRollingCol -> released * ReleaseRollingValue(hist)
    [] c = InterWeekendCol -> released * Bool01(Weekday(pred_date) >= 5)
    [] c = "day_of_week_sin" -> DayOfWeekSin(Weekday(pred_date))
    [] c = "day_of_week_cos" -> DayOfWeekCos(Weekday(pred_date))
    [] c = InterDowSinCol -> released * DayOfWeekSin(Weekday(pred_date))
    [] c = InterDowCosCol -> released * DayOfWeekCos(Weekday(pred_date))

\* Row j of rows holds, in every feature column of the artifact, the value
\* computed for its own date from the history before it and its own release
\* indicator.
FeaturesRecomputed(rows) ==
  \A j \in 1..Len(rows) : \A c \in Range(artifact.features) \ StoredCols :
    LET hist == df \o SubSeq(rows, 1, j - 1)
        row == rows[j]
    IN row[c] =
         IF IsInteractionCol(c)
         THEN InteractionValue(c, hist, row["Date"], row["Episodes Released"])
         ELSE FillMissing(c, StepValue(c, hist, hist[Len(hist)], row["Date"],
                                       row["Episodes Released"]), artifact.features)

\* C6: at every forecast step every lag, rolling, expanding, Fourier, weekend
\* and interaction feature of the artifact's feature list is recomputed for
\* the new date; none keeps the value copied from the previous row.
C6_EveryFeatureRecomputed ==
  /\ pc = "forecast" => FeaturesRecomputed(predicted_rows)
  /\ pc = "rerun" => FeaturesRecomputed(rerun_predicted_rows)

\* ------------------------------------- training feature builder (regression)
\* Series.shift(n): row k takes the value of row k - n, the first n rows NaN.
Shift(col, n) == [k \in 1..Len(col) |-> IF k > n THEN col[k - n] ELSE NaN]

\* getattr(df[target_col].rolling(window=7, min_periods=1), stat)()
Rolling7(col, stat) ==
  [k \in 1..Len(col) |-> Stat(stat, SubSeq(col, IF k > 6 THEN k - 6 ELSE 1, k))]

\* df[target_col].expanding().mean()
ExpandingMean(col) == [k \in 1..Len(col) |-> MeanOf(SubSeq(col, 1, k))]

\* Lines 79-81: df[lag_col] = df[target_col].shift(lag)
TrainTargetLag(col, lag) == Shift(col, lag)

\* Line 91, then lines 173-175: the rolling statistic shifted by one day,
\* and every predictor named rolling_* shifted once more.
TrainRolling(col, stat) == Shift(Shift(Rolling7(col, stat), 1), 1)

\* Mutant of TrainExpandingMean: the shift is missing.
TrainExpandingMean_Unshifted(col) == ExpandingMean(col)

\* Line 94: df[target_col].expanding().mean().shift(1)
TrainExpandingMean(col) == Shift(ExpandingMean(col), 1)

TrainFeatureCols ==
  {TargetLagCol(lag) : lag \in TargetLags} \cup
  {RollingCol(stat) : stat \in RollingStats} \cup {ExpandingCol}

\* The lag, rolling and expanding-mean columns of every row of the frame.
TrainFeatureTable(col) ==
  LET lags == [lag \in TargetLags |-> TrainTargetLag(col, lag)]
      rolls == [stat \in RollingStats |-> TrainRolling(col, stat)]
      expanding == TrainExpandingMean(col)
  IN [k \in 1..Len(col) |->
        [c \in TrainFeatureCols |->
           CASE \E lag \in TargetLags : c = TargetLagCol(lag) ->
                  lags[CHOOSE lag \in TargetLags : c = TargetLagCol(lag)][k]
             [] \E stat \in RollingStats : c = RollingCol(stat) ->
                  rolls[CHOOSE stat \in RollingStats : c = RollingCol(stat)][k]
             [] c = ExpandingCol -> expanding[k]]]

\* Stored daily series (dates ascending, one row per date) and the same
\* series with the target of one row changed.
TrainValues == 0..MaxTrainValue
TrainSeries ==
  UNION {{[k \in 1..n |-> (a + k * k) % (MaxTrainValue + 1)] : a \in TrainValues} :
           n \in 1..MaxTrainLen}
MutatedAt(col, q, v) == [col EXCEPT ![q] = v]

FeaturesInit ==
  /\ fpc = "loaded"
  /\ train_target \in TrainSeries
  /\ \E q \in 1..Len(train_target) : \E v \in TrainValues :
       twin_target = MutatedAt(train_target, q, v)
  /\ train_features = <<>>
  /\ twin_features = <<>>

\* regression POST, lines 78-95 and 172-175, on both series.
BuildTrainingFeatures ==
  /\ fpc = "loaded"
  /\ train_features' = TrainFeatureTable(train_target)
  /\ twin_features' = TrainFeatureTable(twin_target)
  /\ fpc' = "built"
  /\ UNCHANGED <<train_target, twin_target>>
  /\ UNCHANGED exceptFeatures

FeaturesNext == BuildTrainingFeatures

PredictIdle ==
  /\ pc = "idle"
  /\ data = <<>>
  /\ artifact = ArtifactLags
  /\ episodes = {}
  /\ release_dates = <<>>
  /\ df = <<>>
  /\ history = <<>>
  /\ predicted_rows = <<>>
  /\ candidate_dates = <<>>
  /\ i = 0
  /\ history_df = <<>>
  /\ rerun_predicted_rows = <<>>
  /\ optimized_release_indices = {}
  /\ optimized_release_dates = {}
  /\ response = NoResponse

InitFeatures == FeaturesInit /\ PredictIdle /\ TrainIdle /\ MissingIdle /\ RetryIdle /\ ValidateIdle /\ SpikesIdle /\ CreateIdle /\ DeleteIdle /\ PredictGetIdle /\ ImpactIdle /\ SplitIdle /\ RaceIdle

SpecFeatures == InitFeatures /\ [][FeaturesNext]_vars

AgreeBefore(d) == \A k \in 1..(d - 1) : train_target[k] = twin_target[k]

\* C7: the lag (1/7/14), rolling 7-day (min/max/median) and expanding-mean
\* features of the row at date d depend only on target values strictly
\* before d: two series that agree before d give the same features at d.
C7_NoFutureLeakage ==
  fpc = "built" =>
    \A d \in 1..Len(train_target) :
      AgreeBefore(d) => train_features[d] = twin_features[d]

C7_Witness ==
  /\ fpc = "built"
  /\ \E d \in 15..Len(train_target) :
       /\ AgreeBefore(d)
       /\ train_target[d] # twin_target[d]
       /\ \A c \in TrainFeatureCols : train_features[d][c] # NaN
       /\ d < Len(train_target)
       /\ train_features[d + 1] # twin_features[d + 1]

\* The stored rows before date d, as the forecaster's history frame.
HistoryBefore(col, d) == [k \in 1..(d - 1) |-> [c \in {TargetCol} |-> col[k]]]

\* C30: for each rolling 7-day min/max/median feature, the value the
\* forecaster computes for a new date d equals the value the trainer's
\* feature builder gives the row at date d over the same history.
C30_ForecasterRollingMatchesTrainer ==
  fpc = "built" =>
    \A d \in 2..Len(twin_target) : \A stat \in RollingStats :
      RollingValue(HistoryBefore(twin_target, d), stat) =
        twin_features[d][RollingCol(stat)]

\* --------------------------------------- artifact persistence (regression)
\* max_attempts=3 of the retried save and of the retried load
MaxAttempts == 3

\* model_artifact = {'model': ..., 'scaler': ..., 'features': ...} as fitted
\* by request t ("old": by an earlier, completed training).
ArtifactOf(t) == [model |-> t, scaler |-> t, features |-> t]
\* joblib.dump(model_artifact, buffer): the artifact's bytes, in three chunks.
JoblibDump(art) == <<art.model, art.scaler, art.features>>
\* joblib.load(io.BytesIO(model_bytes)); raises on a truncated pickle
JoblibLoads(bytes) == Len(bytes) = 3
JoblibLoad(bytes) == [model |-> bytes[1], scaler |-> bytes[2], features |-> bytes[3]]

\* buffer.read(): the bytes from the read position to the end
BufferRead(buf, pos) == SubSeq(buf, pos + 1, Len(buf))

TrainInit ==
  /\ model_blob \in {[exists |-> FALSE, bytes |-> <<>>, writer |-> "none"],
                     [exists |-> TRUE, bytes |-> JoblibDump(ArtifactOf("old")),
                      writer |-> "old"]}
  /\ tpc = [t \in Trainers |-> "start"]
  /\ attempt = [t \in Trainers |-> 1]
  /\ buffer = [t \in Trainers |-> <<>>]
  /\ buffer_pos = [t \in Trainers |-> 0]
  /\ uploaded = [t \in Trainers |-> {}]
  /\ failed_step = [t \in Trainers |-> "none"]
  /\ tstatus = [t \in Trainers |-> 0]
  /\ lpc = "start"
  /\ lattempt = 1
  /\ model_bytes = {}
  /\ model_artifact = {}
  /\ lstatus = 0

\* regression POST, lines 44-59: the series is loaded (with retry); a load
\* that fails returns 500, a record without data 404.
TrainLoad(t) ==
  /\ tpc[t] = "start"
  /\ \E outcome \in {"ok", "failed", "nodata"} :
       CASE outcome = "ok" ->
              /\ tpc' = [tpc EXCEPT ![t] = "fit"]
              /\ UNCHANGED <<tstatus, failed_step>>
         [] outcome = "failed" ->
              /\ tpc' = [tpc EXCEPT ![t] = "done"]
              /\ tstatus' = [tstatus EXCEPT ![t] = 500]
              /\ failed_step' = [failed_step EXCEPT ![t] = "load"]
         [] outcome = "nodata" ->
              /\ tpc' = [tpc EXCEPT ![t] = "done"]
              /\ tstatus' = [tstatus EXCEPT ![t] = 404]
              /\ failed_step' = [failed_step EXCEPT ![t] = "load"]
  /\ UNCHANGED <<model_blob, attempt, buffer, buffer_pos, uploaded, lpc,
                 lattempt, model_bytes, model_artifact, lstatus>>
  /\ UNCHANGED exceptTrain

\* Lines 60-326: features, selection, tuning, split and fit, then the
\* artifact serialized into the buffer and buffer.seek(0).  A step that
\* raises reaches the handler's except clause (lines 365-367): 500.
TrainFit(t) ==
  /\ tpc[t] = "fit"
  /\ \E raised \in BOOLEAN :
       IF raised
       THEN /\ tpc' = [tpc EXCEPT ![t] = "done"]
            /\ tstatus' = [tstatus EXCEPT ![t] = 500]
            /\ failed_step' = [failed_step EXCEPT ![t] = "fit"]
            /\ UNCHANGED <<buffer, buffer_pos>>
       ELSE /\ tpc' = [tpc EXCEPT ![t] = "save"]
            /\ buffer' = [buffer EXCEPT ![t] = JoblibDump(ArtifactOf(t))]
            /\ buffer_pos' = [buffer_pos EXCEPT ![t] = 0]
            /\ UNCHANGED <<tstatus, failed_step>>
  /\ UNCHANGED <<model_blob, attempt, uploaded, lpc, lattempt, model_bytes,
                 model_artifact, lstatus>>
  /\ UNCHANGED exceptTrain

\* Lines 328-337: one attempt of retry_with_backoff(lambda:
\* save_to_blob_storage(buffer.read(), model_blob_name)).  The argument is
\* read from the buffer, then upload_blob(data, overwrite=True) replaces the
\* blob or raises RuntimeError; the last failure is caught and logged.
TrainSaveAttempt(t) ==
  /\ tpc[t] = "save"
  /\ LET payload == BufferRead(buffer[t], buffer_pos[t])
     IN /\ buffer_pos' = [buffer_pos EXCEPT ![t] = Len(buffer[t])]
        /\ \E stored \in BOOLEAN :
             IF stored
             THEN /\ model_blob' = [exists |-> TRUE, bytes |-> payload, writer |-> t]
                  /\ uploaded' = [uploaded EXCEPT ![t] = {payload}]
                  /\ tpc' = [tpc EXCEPT ![t] = "respond"]
                  /\ UNCHANGED <<attempt, failed_step>>
             ELSE /\ UNCHANGED <<model_blob, uploaded>>
                  /\ IF attempt[t] = MaxAttempts
                     THEN /\ tpc' = [tpc EXCEPT ![t] = "respond"]
                          /\ failed_step' = [failed_step EXCEPT ![t] = "save"]
                          /\ UNCHANGED attempt
                     ELSE /\ attempt' = [attempt EXCEPT ![t] = attempt[t] + 1]
                          /\ UNCHANGED <<tpc, failed_step>>
  /\ UNCHANGED <<buffer, tstatus, lpc, lattempt, model_bytes, model_artifact,
                 lstatus>>
  /\ UNCHANGED exceptTrain

\* Lines 339-359: the success response.
TrainRespond(t) ==
  /\ tpc[t] = "respond"
  /\ tstatus' = [tstatus EXCEPT ![t] = 200]
  /\ tpc' = [tpc EXCEPT ![t] = "done"]
  /\ UNCHANGED <<model_blob, attempt, buffer, buffer_pos, uploaded,
                 failed_step, lpc, lattempt, model_bytes, model_artifact,
                 lstatus>>
  /\ UNCHANGED exceptTrain

\* predict POST, lines 46-58: one attempt of the retried
\* load_from_blob_storage(model_blob_name, binary=True); a missing blob or a
\* transport failure raises RuntimeError, the last failure returns 500.
ForecastLoadAttempt ==
  /\ lpc = "start"
  /\ \E transport_ok \in BOOLEAN :
       IF model_blob.exists /\ transport_ok
       THEN /\ model_bytes' = {model_blob.bytes}
            /\ lpc' = "loaded"
            /\ UNCHANGED <<lattempt, lstatus>>
       ELSE /\ UNCHANGED model_bytes
            /\ IF lattempt = MaxAttempts
               THEN /\ lpc' = "done"
                    /\ lstatus' = 500
                    /\ UNCHANGED lattempt
               ELSE /\ lattempt' = lattempt + 1
                    /\ UNCHANGED <<lpc, lstatus>>
  /\ UNCHANGED <<model_blob, tpc, attempt, buffer, buffer_pos, uploaded,
                 failed_step, tstatus, model_artifact>>
  /\ UNCHANGED exceptTrain

\* predict POST, lines 59-64: joblib.load of the downloaded bytes; a pickle
\* that cannot be read raises into the handler's except clause: 500.
ForecastUnpickle ==
  /\ lpc = "loaded"
  /\ LET bytes == CHOOSE b \in model_bytes : TRUE
     IN IF JoblibLoads(bytes)
        THEN /\ model_artifact' = {JoblibLoad(bytes)}
             /\ lstatus' = 200
        ELSE /\ lstatus' = 500
             /\ UNCHANGED model_artifact
  /\ lpc' = "done"
  /\ UNCHANGED <<model_blob, tpc, attempt, buffer, buffer_pos, uploaded,
                 failed_step, tstatus, lattempt, model_bytes>>
  /\ UNCHANGED exceptTrain

TrainNext ==
  \/ \E t \in Trainers : TrainLoad(t)
  \/ \E t \in Trainers : TrainFit(t)
  \/ \E t \in Trainers : TrainSaveAttempt(t)
  \/ \E t \in Trainers : TrainRespond(t)
  \/ ForecastLoadAttempt
  \/ ForecastUnpickle

InitTrain == TrainInit /\ PredictIdle /\ FeaturesIdle /\ MissingIdle /\ RetryIdle /\ ValidateIdle /\ SpikesIdle /\ CreateIdle /\ DeleteIdle /\ PredictGetIdle /\ ImpactIdle /\ SplitIdle /\ RaceIdle

SpecTrain == InitTrain /\ [][TrainNext]_vars

\* C8: a training request that returns its success response has stored the
\* artifact it fitted.
C8_SuccessMeansArtifactStored ==
  \A t \in Trainers :
    tstatus[t] = 200 => uploaded[t] = {JoblibDump(ArtifactOf(t))}

\* C9: a training request in which a step failed returns an error and has
\* written no artifact.
C9_FailureReturnsErrorAndWritesNothing ==
  \A t \in Trainers :
    (tpc[t] = "done" /\ failed_step[t] # "none") =>
      (tstatus[t] \in {404, 500} /\ uploaded[t] = {})

WholeArtifacts == {JoblibDump(ArtifactOf(x)) : x \in Trainers \cup {"old"}}

\* C10: once both trainings have finished the blob holds the whole artifact of
\* the training whose write succeeded last, and the forecast request loads
\* one whole artifact: the old one or one of the two new ones.
C10_LastWriteWinsAndReadsAreWhole ==
  /\ ((\A t \in Trainers : tpc[t] = "done") /\ model_blob.writer \in Trainers) =>
       model_blob.bytes = JoblibDump(ArtifactOf(model_blob.writer))
  /\ model_bytes \subseteq WholeArtifacts

\* C26: whichever attempt of the retried save succeeds, the bytes stored are
\* the complete serialized artifact, and a forecast that downloaded the blob
\* loads the model from it.
C26_EverySuccessfulAttemptStoresWholeArtifact ==
  /\ \A t \in Trainers :
       \A bytes \in uploaded[t] : bytes = JoblibDump(ArtifactOf(t))
  /\ (lpc = "done" /\ model_bytes # {}) => lstatus = 200

\* ------------------------------- missing-episode inference and its updates
\* Most rows of an annotated series handed to the inference.
MaxMissingRows == 2
\* Most update requests handled on one stored series.
MaxPosts == 2

\* A pandas Timestamp: a calendar day and the time of day (hours).
Timestamp(day, hour) == [day |-> day, hour |-> hour]
\* Timestamp.normalize(): the same day at midnight
Normalize(ts) == [ts EXCEPT !.hour = 0]
\* .strftime('%Y-%m-%d'): the day as text, the time of day dropped
StrfDate(ts) == ts.day

\* A label of a Series index: an integer position of the default RangeIndex,
\* or a Timestamp of a DatetimeIndex.
IntLabel(k) == [kind |-> "int", day |-> k, hour |-> 0]
TsLabel(ts) == [kind |-> "ts", day |-> ts.day, hour |-> ts.hour]

\* pd.Series(values): index 0..n-1
RangeIndexed(values) ==
  [index |-> [k \in 1..Len(values) |-> IntLabel(k - 1)], values |-> values]
\* pd.Series(values, index=values)
DateIndexed(values) ==
  [index |-> [k \in 1..Len(values) |-> TsLabel(values[k])], values |-> values]

\* pd.to_datetime(episode_dates).dt.normalize(): the values at midnight, the
\* index kept.
NormalizeSeries(series) ==
  [series EXCEPT !.values = [k \in 1..Len(series.values) |->
                               Normalize(series.values[k])]]

\* "key in series": Series.__contains__ looks the key up in the index.
SeriesContains(series, key) ==
  \E k \in 1..Len(series.index) : series.index[k] = TsLabel(key)

\* The Date of the k-th stored row: day k, the odd rows not at midnight.
RowDate(k) == Timestamp(k, k % 2)

AnnotatedRow(k, spike, anomalous, released) ==
  ("Date" :> RowDate(k)) @@ ("is_spike" :> spike)
    @@ ("is_anomalous" :> anomalous) @@ ("Episodes Released" :> released)

\* The annotations of a row: <<is_spike, is_anomalous, Episodes Released>>.
\* A quiet spike, a spike on a release day, an anomalous spike, no spike.
RowKinds ==
  {<<TRUE, FALSE, 0>>, <<TRUE, FALSE, 1>>, <<TRUE, TRUE, 0>>, <<FALSE, FALSE, 0>>}
AnnotatedSeries == UNION {[1..n -> RowKinds] : n \in 1..MaxMissingRows}

\* The known episode dates: none, or the first day of the series (at its
\* time of day), as a Series with the default index or indexed by the dates.
EpisodeDateSeries ==
  {RangeIndexed(<<>>), RangeIndexed(<<RowDate(1)>>), DateIndexed(<<RowDate(1)>>),
   DateIndexed(<<Normalize(RowDate(1))>>)}

\* _potential_missing(row), with episode_dates already normalized
PotentialMissing_IgnoresRecordedCount(row, dates) ==
  LET date_norm == Normalize(row["Date"])
      not_in_episodes == ~SeriesContains(dates, date_norm)
  IN row["is_spike"] /\ ~row["is_anomalous"] /\ not_in_episodes

PotentialMissing(row, dates) ==
  LET date_norm == Normalize(row["Date"])
      not_in_episodes == ~SeriesContains(dates, date_norm)
  IN row["is_spike"] /\ ~row["is_anomalous"]
       /\ row["Episodes Released"] = 0 /\ not_in_episodes

\* _deduced(row)
Deduced(row) ==
  row["Episodes Released"] + (IF row["potential_missing_episode"] THEN 1 ELSE 0)

\* mark_potential_missing_episodes(downloads_df, episode_dates).  The column
\* 'accepted' of the update handler is carried from the start as NaN.
MarkPotentialMissingEpisodes(rows, dates) ==
  LET normalized == NormalizeSeries(dates)
      flagged(row) ==
        row @@ ("potential_missing_episode" :> PotentialMissing(row, normalized))
  IN [k \in 1..Len(rows) |->
        flagged(rows[k])
          @@ ("deduced_episodes_released" :> Deduced(flagged(rows[k])))
          @@ ("accepted" :> "nan")]

MissingInit ==
  /\ mpc = "annotated"
  /\ \E cells \in AnnotatedSeries :
       downloads_df = [k \in DOMAIN cells |->
                         AnnotatedRow(k, cells[k][1], cells[k][2], cells[k][3])]
  /\ episode_dates \in EpisodeDateSeries
  /\ inferred = <<>>
  /\ stored_data = <<>>
  /\ data_before = <<>>
  /\ updates_body = NoBody
  /\ mstatus = 0
  /\ posts = 0

\* The inference runs on the annotated series and its result is stored.
InferMissingEpisodes ==
  /\ mpc = "annotated"
  /\ inferred' = MarkPotentialMissingEpisodes(downloads_df, episode_dates)
  /\ stored_data' = inferred'
  /\ mpc' = "stored"
  /\ UNCHANGED <<episode_dates, downloads_df, data_before, updates_body,
                 mstatus, posts>>
  /\ UNCHANGED exceptMissing

\* One entry of 'updates': a date as 'YYYY-MM-DD' text and 'accepted', which
\* a caller may send as something other than a JSON boolean.
\* The dates are the first and the last day of the longest series, and the
\* day after it, which no row has.
UpdateEntries ==
  [date : {1, MaxMissingRows, MaxMissingRows + 1}, accepted : {"True", "False"}]
    \cup {[date |-> 1, accepted |-> "yes"]}

\* Body 'updates': the string 'ALL', or a list of entries (possibly empty).
UpdateBodies ==
  {[kind |-> "ALL", updates |-> <<>>], [kind |-> "list", updates |-> <<>>]}
    \cup {[kind |-> "list", updates |-> <<u>>] : u \in UpdateEntries}
    \cup {[kind |-> "list",
           updates |-> <<[date |-> 1, accepted |-> "True"],
                         [date |-> 1, accepted |-> "True"]>>]}

\* missing POST, lines 92-96: 'ALL' becomes one accepted update per row that
\* is flagged now.
RECURSIVE FlaggedDates(_)
FlaggedDates(rows) ==
  IF rows = <<>> THEN <<>>
  ELSE (IF Head(rows)["potential_missing_episode"]
        THEN <<[date |-> StrfDate(Head(rows)["Date"]), accepted |-> "True"]>>
        ELSE <<>>) \o FlaggedDates(Tail(rows))

EffectiveUpdates(body, rows) ==
  IF body.kind = "ALL" THEN FlaggedDates(rows) ELSE body.updates

\* line 114: not date or not isinstance(accepted, bool)
InvalidEntry(update) == update.accepted \notin {"True", "False"}

\* lines 124-133 for one update: the rows of that date get 'accepted'; an
\* accepted update adds 1 to 'Episodes Released' and clears the flag.
ApplyUpdate_CountUnchanged(rows, update) ==
  [k \in 1..Len(rows) |->
     IF StrfDate(rows[k]["Date"]) = update.date
     THEN IF update.accepted = "True"
          THEN [rows[k] EXCEPT !["accepted"] = "True",
                               !["potential_missing_episode"] = FALSE]
          ELSE [rows[k] EXCEPT !["accepted"] = "False"]
     ELSE rows[k]]

ApplyUpdate(rows, update) ==
  [k \in 1..Len(rows) |->
     IF StrfDate(rows[k]["Date"]) = update.date
     THEN IF update.accepted = "True"
          THEN [rows[k] EXCEPT !["accepted"] = "True",
                               !["Episodes Released"] = @ + 1,
                               !["potential_missing_episode"] = FALSE]
          ELSE [rows[k] EXCEPT !["accepted"] = "False"]
     ELSE rows[k]]

\* lines 110-133: the updates in order
RECURSIVE ApplyUpdates(_, _)
ApplyUpdates(rows, updates) ==
  IF updates = <<>> THEN rows
  ELSE ApplyUpdates(ApplyUpdate(rows, Head(updates)), Tail(updates))

\* missing POST: load (500 when the load fails), the updates (400 when the
\* list is empty or an entry is invalid), the save with retry (500 when it
\* fails), then 200.  Only the save changes what is stored.
MissingPost ==
  /\ mpc = "stored"
  /\ posts < MaxPosts
  /\ \E body \in UpdateBodies :
     \E outcome \in {"ok", "load_failed", "save_failed"} :
       LET updates == EffectiveUpdates(body, stored_data)
       IN /\ updates_body' = body
          /\ data_before' = stored_data
          /\ CASE outcome = "load_failed" ->
                    mstatus' = 500 /\ UNCHANGED stored_data
               [] outcome # "load_failed" /\ updates = <<>> ->
                    mstatus' = 400 /\ UNCHANGED stored_data
               [] outcome # "load_failed" /\ updates # <<>>
                    /\ (\E k \in 1..Len(updates) : InvalidEntry(updates[k])) ->
                    mstatus' = 400 /\ UNCHANGED stored_data
               [] outcome = "save_failed" /\ updates # <<>>
                    /\ (\A k \in 1..Len(updates) : ~InvalidEntry(updates[k])) ->
                    mstatus' = 500 /\ UNCHANGED stored_data
               [] outcome = "ok" /\ updates # <<>>
                    /\ (\A k \in 1..Len(updates) : ~InvalidEntry(updates[k])) ->
                    /\ mstatus' = 200
                    /\ stored_data' = ApplyUpdates(stored_data, updates)
  /\ posts' = posts + 1
  /\ UNCHANGED <<mpc, episode_dates, downloads_df, inferred>>
  /\ UNCHANGED exceptMissing

MissingNext ==
  \/ InferMissingEpisodes
  \/ MissingPost

InitMissing == MissingInit /\ PredictIdle /\ FeaturesIdle /\ TrainIdle /\ RetryIdle /\ ValidateIdle /\ SpikesIdle /\ CreateIdle /\ DeleteIdle /\ PredictGetIdle /\ ImpactIdle /\ SplitIdle /\ RaceIdle

SpecMissing == InitMissing /\ [][MissingNext]_vars

\* The known episode dates, normalized to midnight.
KnownEpisodeDays ==
  {Normalize(episode_dates.values[k]) : k \in 1..Len(episode_dates.values)}

\* C11: the inference flags a row exactly when it is a spike, is not
\* anomalous, has recorded episode count 0 and its midnight-normalized date
\* is not one of the known episode dates.
C11_FlaggedExactlyWhenUndocumentedSpike ==
  mpc = "stored" =>
    \A k \in 1..Len(inferred) :
      inferred[k]["potential_missing_episode"] <=>
        (/\ inferred[k]["is_spike"]
         /\ ~inferred[k]["is_anomalous"]
         /\ inferred[k]["Episodes Released"] = 0
         /\ Normalize(inferred[k]["Date"]) \notin KnownEpisodeDays)

\* C12: in every stored state, after the inference and after any sequence of
\* update requests, no row is flagged while its recorded count is above 0.
C12_NoFlagOnRecordedRelease ==
  mpc = "stored" =>
    \A k \in 1..Len(stored_data) :
      stored_data[k]["potential_missing_episode"] =>
        stored_data[k]["Episodes Released"] = 0

\* Accepted and rejected updates were applied over two requests, one row is
\* still flagged and another has a confirmed release.
C12_Witness ==
  /\ posts >= 2
  /\ mstatus = 200
  /\ \E j, k \in 1..Len(stored_data) :
       /\ stored_data[j]["potential_missing_episode"]
       /\ stored_data[j]["accepted"] = "False"
       /\ stored_data[k]["accepted"] = "True"
       /\ stored_data[k]["Episodes Released"] > 0

\* The accepted updates of the last request that name the date of row k.
AcceptedFor(k) ==
  IF updates_body.kind = "ALL"
  THEN IF data_before[k]["potential_missing_episode"] THEN 1 ELSE 0
  ELSE Cardinality({n \in 1..Len(updates_body.updates) :
                      /\ updates_body.updates[n].accepted = "True"
                      /\ updates_body.updates[n].date = data_before[k]["Date"].day})

\* C13: a request that is applied adds 1 to a date's recorded count for each
\* accepted update of that date and clears its flag; the count and flag of
\* every other date, and of a date with only rejected updates, are unchanged.
\* A request that is not applied changes nothing.
C13_AcceptedUpdateFrame ==
  posts > 0 =>
    \A k \in 1..Len(stored_data) :
      LET n == IF mstatus = 200 THEN AcceptedFor(k) ELSE 0
      IN /\ stored_data[k]["Episodes Released"] =
              data_before[k]["Episodes Released"] + n
         /\ stored_data[k]["potential_missing_episode"] =
              (IF n > 0 THEN FALSE
               ELSE data_before[k]["potential_missing_episode"])

\* Accept-all confirmed a flagged date and left another date as it was.
C13_Witness ==
  /\ mstatus = 200
  /\ updates_body.kind = "ALL"
  /\ \E j, k \in 1..Len(stored_data) :
       /\ data_before[j]["potential_missing_episode"]
       /\ stored_data[j]["Episodes Released"] = 1
       /\ ~stored_data[j]["potential_missing_episode"]
       /\ j # k
       /\ stored_data[k] = data_before[k]

\* C27: after the inference and after any sequence of accepted updates, on
\* any dates, every stored row has deduced_episodes_released equal to its
\* recorded episode count plus 1 if it is flagged.
C27_DeducedFollowsRecordedCount ==
  mpc = "stored" =>
    \A k \in 1..Len(stored_data) :
      stored_data[k]["deduced_episodes_released"] =
        stored_data[k]["Episodes Released"]
          + (IF stored_data[k]["potential_missing_episode"] THEN 1 ELSE 0)

\* ------------------------------------------------- retry_with_backoff
\* Largest max_attempts a caller passes to the wrapper.
MaxAttemptsArg == 3

\* The wrapped functions: the blob loads of the handlers, the trend
\* handler's load_blob, and a function that fails or succeeds at will.
BlobLoads == {"load_from_blob_storage", "load_podcast_blob"}
WrappedFunctions == BlobLoads \cup {"load_blob", "flaky"}

\* The exceptions= tuple each caller passes.
ListedExceptions(f) ==
  IF f = "load_blob" THEN {"Exception"} ELSE {"RuntimeError"}

\* isinstance(e, exceptions): BlobDecodeError and UnicodeDecodeError are
\* ValueErrors, every class is an Exception.
IsInstance(e, classes) == "Exception" \in classes \/ e \in classes

\* max_attempts, initial_delay, backoff_factor: 3, 1.0, 2.0 in every
\* handler.
HandlerArgs == [max_attempts |-> 3, initial_delay |-> 1, backoff_factor |-> 2]
RetryArgs(f) ==
  IF f = "flaky"
  THEN [max_attempts : 1..MaxAttemptsArg, initial_delay : {0, 1, 3},
        backoff_factor : {1, 2}]
  ELSE {HandlerArgs}

\* What one call of the wrapped function does.  load_from_blob_storage and
\* load_podcast_blob re-raise BlobDecodeError and turn every other failure
\* into RuntimeError; load_blob lets the storage client's error or the
\* decode error out as it is.
CallOutcomes(f, utf8) ==
  CASE f \in BlobLoads ->
         {"RuntimeError"} \cup (IF utf8 THEN {"ok"} ELSE {"BlobDecodeError"})
    [] f = "load_blob" ->
         {"AzureError"} \cup (IF utf8 THEN {"ok"} ELSE {"UnicodeDecodeError"})
    [] f = "flaky" -> {"ok", "RuntimeError", "KeyError"}

DecodeErrors == {"BlobDecodeError", "UnicodeDecodeError"}

RetryInit ==
  /\ rpc = "running"
  /\ wrapped \in WrappedFunctions
  /\ retry_args \in RetryArgs(wrapped)
  /\ payload_utf8 \in (IF wrapped = "flaky" THEN {TRUE} ELSE BOOLEAN)
  /\ rattempt = 1
  /\ delay = retry_args.initial_delay
  /\ calls = <<>>
  /\ sleeps = <<>>
  /\ exc_out = "none"

\* delay *= backoff_factor
NextDelay_Additive(d, backoff_factor) == d + backoff_factor

NextDelay(d, backoff_factor) == d * backoff_factor

\* One iteration of the wrapper's loop (lines 35-56): the call; on success
\* the return; on a listed exception the re-raise at the last attempt, else
\* the sleep and the longer delay; any other exception leaves the wrapper.
RetryAttempt ==
  /\ rpc = "running"
  /\ \E outcome \in CallOutcomes(wrapped, payload_utf8) :
       /\ calls' = Append(calls, outcome)
       /\ CASE outcome = "ok" ->
                 /\ rpc' = "returned"
                 /\ UNCHANGED <<rattempt, delay, sleeps, exc_out>>
            [] outcome # "ok"
                 /\ ~IsInstance(outcome, ListedExceptions(wrapped)) ->
                 /\ rpc' = "raised"
                 /\ exc_out' = outcome
                 /\ UNCHANGED <<rattempt, delay, sleeps>>
            [] outcome # "ok"
                 /\ IsInstance(outcome, ListedExceptions(wrapped))
                 /\ rattempt = retry_args.max_attempts ->
                 /\ rpc' = "raised"
                 /\ exc_out' = outcome
                 /\ UNCHANGED <<rattempt, delay, sleeps>>
            [] outcome # "ok"
                 /\ IsInstance(outcome, ListedExceptions(wrapped))
                 /\ rattempt # retry_args.max_attempts ->
                 /\ sleeps' = Append(sleeps, delay)
                 /\ delay' = NextDelay(delay, retry_args.backoff_factor)
                 /\ rattempt' = rattempt + 1
                 /\ UNCHANGED <<rpc, exc_out>>
  /\ UNCHANGED <<wrapped, retry_args, payload_utf8>>
  /\ UNCHANGED exceptRetry

RetryNext == RetryAttempt

InitRetry == RetryInit /\ PredictIdle /\ FeaturesIdle /\ TrainIdle /\ MissingIdle /\ ValidateIdle /\ SpikesIdle /\ CreateIdle /\ DeleteIdle /\ PredictGetIdle /\ ImpactIdle /\ SplitIdle /\ RaceIdle

SpecRetry == InitRetry /\ [][RetryNext]_vars

RECURSIVE Power(_, _)
Power(b, n) == IF n = 0 THEN 1 ELSE b * Power(b, n - 1)

\* C14: the wrapped function is called at most max_attempts times; a call
\* that succeeds is the last one and the wrapper returns; when max_attempts
\* calls raised a listed exception the wrapper re-raises the last; the sleep
\* before attempt k+1 is initial_delay * backoff_factor^(k-1) and there is
\* none after the final failure.
C14_RetryAtMostMaxAttemptsWithBackoff ==
  rpc # "idle" =>
    /\ Len(calls) <= retry_args.max_attempts
    /\ \A k \in 1..Len(calls) :
         calls[k] = "ok" => (k = Len(calls) /\ rpc = "returned")
    /\ (rpc = "raised" /\ IsInstance(exc_out, ListedExceptions(wrapped))) =>
         (Len(calls) = retry_args.max_attempts /\ exc_out = calls[Len(calls)])
    /\ Len(sleeps) = (IF rpc = "running" THEN Len(calls) ELSE Len(calls) - 1)
    /\ \A k \in 1..Len(sleeps) :
         sleeps[k] = retry_args.initial_delay
                       * Power(retry_args.backoff_factor, k - 1)

\* Two failures with growing sleeps, then a success at the last attempt.
C14_Witness ==
  /\ rpc = "returned"
  /\ Len(calls) = 3
  /\ retry_args.max_attempts = 3
  /\ sleeps = <<1, 2>>

\* C15: a load that fails with a decode error is not attempted again: no
\* call follows a call that raised one.
C15_DecodeErrorNotRetried ==
  \A k \in 1..Len(calls) : calls[k] \in DecodeErrors => k = Len(calls)

\* ------------------------------------- validate_downloads_dataframe
\* Most rows of a parsed CSV.
MaxCsvRows == 5
\* Largest gap, in days, between two consecutive rows of a parsed CSV.
MaxGap == 5

\* min_rows=14
MinRows == 14
\* max_median_interval_days=3.0
MaxMedianIntervalDays == 3

\* pd.NaT: a Date that could not be parsed
NaT == -1

\* The parsed rows with the given day gaps between consecutive rows (gap 0:
\* two rows on one calendar date), Downloads 100, 101, ... as uploaded.
RECURSIVE DayAfterGaps(_, _)
DayAfterGaps(gaps, k) == IF k = 0 THEN 0 ELSE DayAfterGaps(gaps, k - 1) + gaps[k]

CsvFrame(gaps) ==
  [k \in 1..(Len(gaps) + 1) |->
     [Date |-> DayAfterGaps(gaps, k - 1), Downloads |-> 100 + 3 * (k - 1)]]

Reversed(s) == [k \in 1..Len(s) |-> s[Len(s) + 1 - k]]

\* The uploads: rows in date order or in reverse order, possibly followed by
\* a row whose date does not parse.
CsvFrames ==
  LET gapChoices == {0, 1, MaxGap - 1, MaxGap}
      gapLists == UNION {[1..n -> gapChoices] : n \in 0..(MaxCsvRows - 1)}
      ordered == {CsvFrame(g) : g \in gapLists}
      frames == ordered \cup {Reversed(f) : f \in ordered}
  IN frames \cup {Append(f, [Date |-> NaT, Downloads |-> 7]) : f \in ordered}

\* df.dropna(subset=["Date", "Downloads"])
DropNa(rows) == SelectSeq(rows, LAMBDA r : r.Date # NaT)

\* .sort_values("Date"): insertion of each row after the rows not later
RECURSIVE SortValues(_)
InsertByDate(sorted, r) ==
  LET n == Cardinality({k \in 1..Len(sorted) : sorted[k].Date <= r.Date})
  IN SubSeq(sorted, 1, n) \o <<r>> \o SubSeq(sorted, n + 1, Len(sorted))
SortValues(rows) ==
  IF rows = <<>> THEN <<>>
  ELSE InsertByDate(SortValues(SubSeq(rows, 1, Len(rows) - 1)), rows[Len(rows)])

\* df["Date"].dt.normalize().drop_duplicates().sort_values()
UniqueDates(rows) == SortedList({rows[k].Date : k \in 1..Len(rows)})

\* unique_dates.diff().dropna(), in days
Intervals(dates) == [k \in 1..(Len(dates) - 1) |-> dates[k + 1] - dates[k]]

\* Twice intervals.median(): the middle one, or the mean of the two middle.
TwiceMedian(w) ==
  IF Len(w) % 2 = 1
  THEN 2 * KthSmallest(w, (Len(w) + 1) \div 2)
  ELSE KthSmallest(w, Len(w) \div 2) + KthSmallest(w, Len(w) \div 2 + 1)

\* median_interval_days > max_median_interval_days
NonDailyCadence(dates) == TwiceMedian(Intervals(dates)) > 2 * MaxMedianIntervalDays

\* groupby(level=0).agg("mean") of Downloads on one date
GroupedMean(rows, d) ==
  LET on == SelectSeq(rows, LAMBDA r : r.Date = d)
  IN SumSeq([k \in 1..Len(on) |-> on[k].Downloads]) \div Len(on)

\* pd.date_range(start, end, freq="D")
FullIndex_EndpointsOnly(start, end) == <<start, end>>

FullIndex(start, end) == [k \in 1..(end - start + 1) |-> start + k - 1]

\* interpolate(method="time"): linear in time between the two nearest dates
\* that have a value
Interpolate(rows, dates, d) ==
  IF d \in dates THEN GroupedMean(rows, d)
  ELSE LET lo == CHOOSE e \in dates :
                   e < d /\ \A f \in dates : f < d => f <= e
           hi == CHOOSE e \in dates :
                   e > d /\ \A f \in dates : f > d => f >= e
           vlo == GroupedMean(rows, lo)
           vhi == GroupedMean(rows, hi)
       IN vlo + ((vhi - vlo) * (d - lo)) \div (hi - lo)

\* _resample_dataframe_to_daily(df)
ResampleDataframeToDaily(rows) ==
  LET dates == {rows[k].Date : k \in 1..Len(rows)}
      first == CHOOSE d \in dates : \A e \in dates : d <= e
      last == CHOOSE d \in dates : \A e \in dates : d >= e
      full_index == FullIndex(first, last)
  IN [k \in 1..Len(full_index) |->
        [Date |-> full_index[k],
         Downloads |-> Interpolate(rows, dates, full_index[k])]]

Raises(kind) == [error |-> kind, rows |-> <<>>]
Returns(rows) == [error |-> "none", rows |-> rows]

\* validate_downloads_dataframe(downloads_df, frequency_mode=mode), lines
\* 203-245
ValidateDownloadsDataframe(downloads, mode) ==
  LET cleaned == SortValues(DropNa(downloads))
      unique_dates == UniqueDates(cleaned)
  IN IF Len(unique_dates) < 2 THEN Raises("fewer than two distinct dates")
     ELSE IF NonDailyCadence(unique_dates)
     THEN IF mode = "resample_daily"
          THEN IF Len(unique_dates) < 4
               THEN Raises("not enough periods to resample")
               ELSE LET daily == ResampleDataframeToDaily(cleaned)
                    IN IF Len(daily) < MinRows
                       THEN Raises("too few usable rows")
                       ELSE Returns(daily)
          ELSE Raises("non-daily cadence")
     ELSE IF Len(cleaned) < MinRows THEN Raises("too few usable rows")
          ELSE Returns(cleaned)

ValidateInit ==
  /\ vpc = "parsed"
  /\ csv_rows \in CsvFrames
  /\ frequency_mode \in {"strict", "resample_daily"}
  /\ validated = [error |-> "none", rows |-> <<>>]

Validate ==
  /\ vpc = "parsed"
  /\ validated' = ValidateDownloadsDataframe(csv_rows, frequency_mode)
  /\ vpc' = "validated"
  /\ UNCHANGED <<csv_rows, frequency_mode>>
  /\ UNCHANGED exceptValidate

ValidateNext == Validate

InitValidate == ValidateInit /\ PredictIdle /\ FeaturesIdle /\ TrainIdle /\ MissingIdle /\ RetryIdle /\ SpikesIdle /\ CreateIdle /\ DeleteIdle /\ PredictGetIdle /\ ImpactIdle /\ SplitIdle /\ RaceIdle

SpecValidate == InitValidate /\ [][ValidateNext]_vars

\* The distinct calendar dates of the input, in order.
InputDates == UniqueDates(DropNa(csv_rows))

\* One row per calendar day from the first to the last input date.
DailyOverInputSpan(rows) ==
  /\ Len(rows) = InputDates[Len(InputDates)] - InputDates[1] + 1
  /\ \A k \in 1..Len(rows) : rows[k].Date = InputDates[1] + k - 1

\* C16 as stated: with a median gap between distinct dates above 3 days,
\* strict mode raises; resample mode, given at least 4 distinct dates,
\* returns one row per calendar day over the input's span, at least as many
\* rows as there are distinct input dates.
C16_StrictRejectsResampleReturnsDaily ==
  (vpc = "validated" /\ Len(InputDates) >= 2 /\ NonDailyCadence(InputDates)) =>
    /\ frequency_mode = "strict" => validated.error = "non-daily cadence"
    /\ (frequency_mode = "resample_daily" /\ Len(InputDates) >= 4) =>
         /\ validated.error = "none"
         /\ DailyOverInputSpan(validated.rows)
         /\ Len(validated.rows) >= Len(InputDates)

\* C16, amended: resample mode returns the daily series when the input has at
\* least 4 distinct dates and spans at least min_rows calendar days; over a
\* shorter span it raises the too-few-rows error.
C16_ResampleReturnsDailyWhenSpanIsLongEnough ==
  (vpc = "validated" /\ Len(InputDates) >= 2 /\ NonDailyCadence(InputDates)) =>
    /\ frequency_mode = "strict" => validated.error = "non-daily cadence"
    /\ (frequency_mode = "resample_daily" /\ Len(InputDates) >= 4) =>
         IF InputDates[Len(InputDates)] - InputDates[1] + 1 >= MinRows
         THEN /\ validated.error = "none"
              /\ DailyOverInputSpan(validated.rows)
              /\ Len(validated.rows) >= Len(InputDates)
         ELSE validated.error = "too few usable rows"

\* A non-daily upload was resampled: more rows returned than dates given.
C16_Witness ==
  /\ vpc = "validated"
  /\ frequency_mode = "resample_daily"
  /\ validated.error = "none"
  /\ Len(InputDates) >= 4
  /\ NonDailyCadence(InputDates)
  /\ Len(validated.rows) > Len(InputDates)
  /\ Len(csv_rows) > Len(InputDates)

\* ---------------------------------------------------------------------
\* Spike detection and clustering (utils/spike_clustering.py)
\* ---------------------------------------------------------------------

\* Longest download series given to perform_spike_clustering.
MaxSpikeRows == 9
\* Largest everyday download level of a series.
MaxLevel == 1
\* Largest max_clusters argument.
MaxClustersArg == 3
\* Largest feature array given to determine_optimal_clusters on its own.
MaxSamples == 3
\* Largest inertia a fit reports.
MaxInertia == 2

\* rolling(window=7, min_periods=1)
RollingWindow == 7
\* stability_threshold = 7
StabilityThreshold == 7

\* Downloads above the everyday level on a day of the stable part.
Lifts == {0, 1, 10}

\* The series: an everyday level on every day, with any of the days after
\* the unstable first ones lifted above it.
SpikeSeries ==
  UNION {
    {[p \in 1..n |-> IF p > StabilityThreshold
                     THEN level + lift[p - StabilityThreshold] ELSE level] :
       lift \in [1..(IF n > StabilityThreshold THEN n - StabilityThreshold ELSE 0) -> Lifts]} :
    n \in 0..MaxSpikeRows, level \in 0..MaxLevel}

\* The rows of the rolling window that ends at row p.
WindowRows_ExcludesDay(p) == {q \in 1..(p - 1) : q >= p - RollingWindow}

WindowRows(p) == {q \in 1..p : q > p - RollingWindow}

RECURSIVE SumOver(_, _)
SumOver(series, rows) ==
  IF rows = {} THEN 0
  ELSE LET q == CHOOSE r \in rows : TRUE
       IN series[q] + SumOver(series, rows \ {q})

RECURSIVE SumSquaresOver(_, _)
SumSquaresOver(series, rows) ==
  IF rows = {} THEN 0
  ELSE LET q == CHOOSE r \in rows : TRUE
       IN series[q] * series[q] + SumSquaresOver(series, rows \ {q})

\* z_score > c at row p, where z_score = (Downloads - rolling_mean) /
\* rolling_std with the sample standard deviation of the window. With w rows
\* of sum S and sum of squares Q: mean = S / w, std^2 = (w Q - S^2) / (w (w - 1)).
\* A window of one row, or of equal values, makes z_score NaN (0 / 0), and
\* NaN > c is False.
ZScoreAbove_NotStrict(series, p, c) ==
  LET w == Cardinality(WindowRows(p))
      S == SumOver(series, WindowRows(p))
      Q == SumSquaresOver(series, WindowRows(p))
  IN /\ w * series[p] - S >= 0
     /\ (w * series[p] - S) * (w * series[p] - S) * (w - 1) >= c * c * w * (w * Q - S * S)

ZScoreAbove(series, p, c) ==
  LET w == Cardinality(WindowRows(p))
      S == SumOver(series, WindowRows(p))
      Q == SumSquaresOver(series, WindowRows(p))
  IN /\ w > 1
     /\ w * Q - S * S > 0
     /\ w * series[p] - S > 0
     /\ (w * series[p] - S) * (w * series[p] - S) * (w - 1) > c * c * w * (w * Q - S * S)

\* downloads_df.iloc[stability_threshold:]
StableRows(series) == {p \in 1..Len(series) : p > StabilityThreshold}

\* stable_data['is_spike'] = stable_data['z_score'] > 2
IsSpikeRows(series) == {p \in StableRows(series) : ZScoreAbove(series, p, 2)}

\* stable_data['is_anomalous'] = stable_data['z_score'] > 3
IsAnomalousRows(series) == {p \in StableRows(series) : ZScoreAbove(series, p, 3)}

SpikesInit ==
  /\ \/ /\ entry_point = "perform_spike_clustering"
        /\ spc = "called"
        /\ spike_series \in SpikeSeries
        /\ n_samples = 0
     \/ /\ entry_point = "determine_optimal_clusters"
        /\ spc = "fitting"
        /\ spike_series = <<>>
        /\ n_samples \in 1..MaxSamples
  /\ max_clusters \in 1..MaxClustersArg
  /\ ssd = <<>>
  /\ optimal_clusters = 0
  /\ spike_out = NoSpikeOutput

\* perform_spike_clustering, lines 88-112: the rolling statistics, the
\* z-scores, and the early return when no row is a spike
DetectSpikes ==
  /\ spc = "called"
  /\ IF IsSpikeRows(spike_series) = {}
     THEN /\ spc' = "returned"
          /\ spike_out' = NoSpikeOutput
          /\ UNCHANGED n_samples
     ELSE /\ spc' = "fitting"
          /\ n_samples' = Cardinality(IsSpikeRows(spike_series))
          /\ UNCHANGED spike_out
  /\ UNCHANGED <<entry_point, spike_series, max_clusters, ssd, optimal_clusters>>
  /\ UNCHANGED exceptSpikes

\* KMeans(n_clusters=k).fit(features) raises ValueError when the array has
\* fewer samples than clusters.
KMeansFits(samples, clusters) == samples >= clusters

\* determine_optimal_clusters, lines 24-27: one pass of the loop, k being the
\* number of fits done plus one
KMeansFit ==
  /\ spc = "fitting"
  /\ Len(ssd) < max_clusters
  /\ IF KMeansFits(n_samples, Len(ssd) + 1)
     THEN /\ \E inertia \in 0..MaxInertia :
               /\ Len(ssd) > 0 => inertia <= ssd[Len(ssd)]
               /\ Len(ssd) + 1 = n_samples => inertia = 0
               /\ ssd' = Append(ssd, inertia)
          /\ UNCHANGED <<spc, spike_out>>
     ELSE /\ spc' = "raised"
          /\ spike_out' = [NoSpikeOutput EXCEPT !.error = "ValueError"]
          /\ UNCHANGED ssd
  /\ UNCHANGED <<entry_point, spike_series, max_clusters, n_samples, optimal_clusters>>
  /\ UNCHANGED exceptSpikes

\* KneeLocator(range(1, max_clusters + 1), ssd, ...).knee: one of the x
\* values, or None (written 0 here: both are false in `knee.knee or 2`).
KneeValues(points) == 0..points

\* With a single point KneeLocator has no curve to look at: it either raises
\* or finds no knee.
KneeLocatorRaises(points) == IF points < 2 THEN BOOLEAN ELSE {FALSE}

\* determine_optimal_clusters, lines 30-46
LocateKnee ==
  /\ spc = "fitting"
  /\ Len(ssd) = max_clusters
  /\ \E knee_raises \in KneeLocatorRaises(Len(ssd)) :
       IF knee_raises
       THEN /\ spc' = "raised"
            /\ spike_out' = [NoSpikeOutput EXCEPT !.error = "ValueError"]
            /\ UNCHANGED optimal_clusters
       ELSE /\ \E knee \in (IF Len(ssd) < 2 THEN {0} ELSE KneeValues(Len(ssd))) :
                 optimal_clusters' = IF knee = 0 THEN 2 ELSE knee
            /\ spc' = IF entry_point = "determine_optimal_clusters"
                      THEN "returned" ELSE "chosen"
            /\ UNCHANGED spike_out
  /\ UNCHANGED <<entry_point, spike_series, max_clusters, n_samples, ssd>>
  /\ UNCHANGED exceptSpikes

\* perform_spike_clustering, lines 130-149: the final fit and the merge of the
\* spike rows' flags into the frame
AssignClusters ==
  /\ spc = "chosen"
  /\ IF KMeansFits(n_samples, optimal_clusters)
     THEN /\ spc' = "returned"
          /\ spike_out' = [error |-> "none",
                           is_spike |-> IsSpikeRows(spike_series),
                           is_anomalous |-> IsSpikeRows(spike_series) \cap
                                            IsAnomalousRows(spike_series)]
     ELSE /\ spc' = "raised"
          /\ spike_out' = [NoSpikeOutput EXCEPT !.error = "ValueError"]
  /\ UNCHANGED <<entry_point, spike_series, max_clusters, n_samples, ssd, optimal_clusters>>
  /\ UNCHANGED exceptSpikes

SpikesNext == DetectSpikes \/ KMeansFit \/ LocateKnee \/ AssignClusters

InitSpikes == SpikesInit /\ PredictIdle /\ FeaturesIdle /\ TrainIdle /\ MissingIdle /\ RetryIdle /\ ValidateIdle /\ CreateIdle /\ DeleteIdle /\ PredictGetIdle /\ ImpactIdle /\ SplitIdle /\ RaceIdle

SpecSpikes == InitSpikes /\ [][SpikesNext]_vars

\* C17: determine_optimal_clusters on a single sample returns exactly 1 and
\* raises no error, for any max_clusters >= 1.
C17_SingleSampleGivesOneCluster ==
  (entry_point = "determine_optimal_clusters" /\ n_samples = 1
     /\ spc \in {"returned", "raised"}) =>
    /\ spc = "returned"
    /\ optimal_clusters = 1

ConstantSeries(series) ==
  \A p \in 1..Len(series) : series[p] = series[1]

\* C18: perform_spike_clustering on a constant-valued series of any length
\* returns with no row flagged is_spike and no row flagged is_anomalous.
C18_ConstantSeriesHasNoSpikes ==
  (entry_point = "perform_spike_clustering" /\ ConstantSeries(spike_series)
     /\ spc # "called") =>
    /\ spc = "returned"
    /\ spike_out = NoSpikeOutput
    /\ IsSpikeRows(spike_series) = {}
    /\ IsAnomalousRows(spike_series) = {}

\* A constant series long enough to have rows past the unstable ones went
\* through detection.
C18_Witness ==
  /\ entry_point = "perform_spike_clustering"
  /\ spc = "returned"
  /\ ConstantSeries(spike_series)
  /\ StableRows(spike_series) # {}
  /\ spike_series[1] > 0

\* C29: for every download series no row is flagged is_anomalous: the
\* 7-day window of the rolling mean and sample standard deviation includes
\* the day itself, so z_score^2 <= 6^2 / 7 on every stable row and z_score > 3
\* is never met.
C29_NoRowIsAnomalous ==
  entry_point = "perform_spike_clustering" =>
    /\ spike_out.is_anomalous = {}
    /\ IsAnomalousRows(spike_series) = {}
    /\ \A p \in StableRows(spike_series) :
         LET w == Cardinality(WindowRows(p))
             S == SumOver(spike_series, WindowRows(p))
             Q == SumSquaresOver(spike_series, WindowRows(p))
         IN /\ p \in WindowRows(p)
            /\ RollingWindow * (w * spike_series[p] - S) * (w * spike_series[p] - S) * (w - 1)
                 <= (RollingWindow - 1) * (RollingWindow - 1) * w * (w * Q - S * S)

\* Detection ran on a series with a day far above the six days before it:
\* the day is a spike and is not anomalous.
C29_Witness ==
  /\ entry_point = "perform_spike_clustering"
  /\ spc \notin {"called", "idle"}
  /\ IsAnomalousRows(spike_series) = {}
  /\ \E p \in IsSpikeRows(spike_series) :
       \A q \in WindowRows(p) \ {p} : spike_series[p] >= spike_series[q] + 10

\* ---------------------------------------------------------------------
\* Creating a podcast (functions/v1/initialize.py, POST /v1/podcasts)
\* ---------------------------------------------------------------------

\* max_attempts=3 of the three retried storage calls
IndexMaxAttempts == 3

IndexNames == {"title", "rss"}

\* Podcasts created by earlier or concurrent requests. An index entry holds
\* "none" (no entry), one of these ids, or "new": the id this request
\* generated.
OtherPodcasts == {"pod-1", "pod-2"}

RequestBodies == {"invalid json", "missing title", "missing rss_url", "valid"}

CreateInit ==
  /\ ipc = "received"
  /\ request_body \in RequestBodies
  /\ index_store \in [IndexNames -> {"none"} \cup OtherPodcasts]
  /\ index_before = NoIndexEntries
  /\ podcast_saved = FALSE
  /\ title_reserved = FALSE
  /\ rss_reserved = FALSE
  /\ iattempt = 1
  /\ istatus = 0
  /\ request_writes = {}

\* return error_response(...) / json_response(...)
Respond(status) ==
  /\ ipc' = "responded"
  /\ istatus' = status

\* lines 67-75: the body is not JSON, or has no title or no rss_url
RejectBody ==
  /\ ipc = "received"
  /\ request_body # "valid"
  /\ Respond(400)
  /\ UNCHANGED <<request_body, index_store, index_before, podcast_saved, title_reserved, rss_reserved, iattempt, request_writes>>
  /\ UNCHANGED exceptCreate

\* if existing_by_title or existing_by_rss
IndexConflict_TitleOnly(existing_by_title, existing_by_rss) ==
  existing_by_title # "none"

IndexConflict(existing_by_title, existing_by_rss) ==
  existing_by_title # "none" \/ existing_by_rss # "none"

\* lines 77-84: the two index lookups; a lookup that raises gives 500
LookupIndexes ==
  /\ ipc = "received"
  /\ request_body = "valid"
  /\ index_before' = index_store
  /\ \E lookup_raises \in BOOLEAN :
       IF lookup_raises THEN Respond(500)
       ELSE IF IndexConflict(index_store["title"], index_store["rss"])
       THEN Respond(409)
       ELSE /\ ipc' = "reserve_title"
            /\ UNCHANGED istatus
  /\ UNCHANGED <<request_body, index_store, podcast_saved, title_reserved, rss_reserved, iattempt, request_writes>>
  /\ UNCHANGED exceptCreate

\* delete_podcast_index(index_name, value, expected_podcast_id=podcast_id)
\* inside `try: ... except Exception: pass`: the entry goes away when it is
\* this request's and the deletion works
AfterDelete(entries, index_name, delete_works) ==
  IF delete_works /\ entries[index_name] = "new"
  THEN [entries EXCEPT ![index_name] = "none"]
  ELSE entries

Deleted(before, after) ==
  {"deleted " \o index_name : index_name \in {n \in IndexNames : before[n] # after[n]}}

\* lines 92-100: one attempt of create_podcast_index("title", ...,
\* overwrite=False) under retry_with_backoff(exceptions=(RuntimeError,))
ReserveTitle ==
  /\ ipc = "reserve_title"
  /\ \E upload_raises \in BOOLEAN :
       IF upload_raises
       THEN /\ IF iattempt < IndexMaxAttempts
               THEN /\ iattempt' = iattempt + 1
                    /\ UNCHANGED <<ipc, istatus>>
               ELSE /\ Respond(500)
                    /\ UNCHANGED iattempt
            /\ UNCHANGED <<index_store, title_reserved, request_writes>>
       ELSE IF index_store["title"] # "none"
       THEN /\ Respond(409)
            /\ UNCHANGED <<index_store, title_reserved, iattempt, request_writes>>
       ELSE /\ index_store' = [index_store EXCEPT !["title"] = "new"]
            /\ request_writes' = request_writes \cup {"created title"}
            /\ title_reserved' = TRUE
            /\ iattempt' = 1
            /\ ipc' = "reserve_rss"
            /\ UNCHANGED istatus
  /\ UNCHANGED <<request_body, index_before, podcast_saved, rss_reserved>>
  /\ UNCHANGED exceptCreate

\* lines 102-119: one attempt of create_podcast_index("rss", ...); a conflict
\* deletes the title entry and answers 409, exhausted retries answer 500
ReserveRss ==
  /\ ipc = "reserve_rss"
  /\ \E upload_raises \in BOOLEAN :
       IF upload_raises
       THEN /\ IF iattempt < IndexMaxAttempts
               THEN /\ iattempt' = iattempt + 1
                    /\ UNCHANGED <<ipc, istatus>>
               ELSE /\ Respond(500)
                    /\ UNCHANGED iattempt
            /\ UNCHANGED <<index_store, rss_reserved, request_writes>>
       ELSE IF index_store["rss"] # "none"
       THEN /\ \E delete_works \in BOOLEAN :
                 /\ index_store' = AfterDelete(index_store, "title", title_reserved /\ delete_works)
                 /\ request_writes' = request_writes \cup Deleted(index_store, index_store')
            /\ Respond(409)
            /\ UNCHANGED <<rss_reserved, iattempt>>
       ELSE /\ index_store' = [index_store EXCEPT !["rss"] = "new"]
            /\ request_writes' = request_writes \cup {"created rss"}
            /\ rss_reserved' = TRUE
            /\ iattempt' = 1
            /\ ipc' = "save_podcast"
            /\ UNCHANGED istatus
  /\ UNCHANGED <<request_body, index_before, podcast_saved, title_reserved>>
  /\ UNCHANGED exceptCreate

\* lines 121-152: one attempt of save_podcast_blob under retry_with_backoff;
\* exhausted retries delete both reserved entries and answer 500
SavePodcastBlob ==
  /\ ipc = "save_podcast"
  /\ \E upload_raises \in BOOLEAN :
       IF upload_raises
       THEN /\ IF iattempt < IndexMaxAttempts
               THEN /\ iattempt' = iattempt + 1
                    /\ UNCHANGED <<ipc, istatus, index_store, request_writes>>
               ELSE /\ \E title_delete_works \in BOOLEAN, rss_delete_works \in BOOLEAN :
                         /\ index_store' =
                              AfterDelete(
                                AfterDelete(index_store, "title", title_reserved /\ title_delete_works),
                                "rss", rss_reserved /\ rss_delete_works)
                         /\ request_writes' = request_writes \cup Deleted(index_store, index_store')
                    /\ Respond(500)
                    /\ UNCHANGED iattempt
            /\ UNCHANGED podcast_saved
       ELSE /\ podcast_saved' = TRUE
            /\ request_writes' = request_writes \cup {"saved podcast"}
            /\ Respond(201)
            /\ UNCHANGED <<index_store, iattempt>>
  /\ UNCHANGED <<request_body, index_before, title_reserved, rss_reserved>>
  /\ UNCHANGED exceptCreate

\* Another request reserves the same title or rss_url while this one runs.
ConcurrentCreate ==
  /\ ipc \in {"reserve_title", "reserve_rss", "save_podcast"}
  /\ \E index_name \in IndexNames, podcast_id \in OtherPodcasts :
       /\ index_store[index_name] = "none"
       /\ index_store' = [index_store EXCEPT ![index_name] = podcast_id]
  /\ UNCHANGED <<ipc, request_body, index_before, podcast_saved, title_reserved, rss_reserved, iattempt, istatus, request_writes>>
  /\ UNCHANGED exceptCreate

CreateNext ==
  \/ RejectBody
  \/ LookupIndexes
  \/ ReserveTitle
  \/ ReserveRss
  \/ SavePodcastBlob
  \/ ConcurrentCreate

InitCreate == CreateInit /\ PredictIdle /\ FeaturesIdle /\ TrainIdle /\ MissingIdle /\ RetryIdle /\ ValidateIdle /\ SpikesIdle /\ DeleteIdle /\ PredictGetIdle /\ ImpactIdle /\ SplitIdle /\ RaceIdle

SpecCreate == InitCreate /\ [][CreateNext]_vars

\* The title or the rss_url had an index entry when the handler looked.
AlreadyIndexed ==
  /\ request_body = "valid"
  /\ ipc = "responded"
  /\ istatus # 400
  /\ \E index_name \in IndexNames : index_before[index_name] # "none"

WroteNothing ==
  /\ request_writes = {}
  /\ index_store = index_before
  /\ ~podcast_saved

\* C19 as stated: a create-podcast POST whose title or rss_url already has an
\* index entry returns 409 and writes nothing.
C19_ExistingIndexGives409 ==
  AlreadyIndexed => (istatus = 409 /\ WroteNothing)

\* C19, amended: such a POST writes nothing and returns 409, or 500 when an
\* index lookup itself raised.
C19_ExistingIndexGives409Or500 ==
  AlreadyIndexed => (istatus \in {409, 500} /\ WroteNothing)

\* Only the rss_url was indexed, and the POST was answered 409.
C19_Witness ==
  /\ AlreadyIndexed
  /\ index_before["title"] = "none"
  /\ index_before["rss"] \in OtherPodcasts
  /\ istatus = 409

\* C20: whenever a create-podcast POST does not return 201, no title or rss
\* index entry pointing to the newly generated podcast_id remains.
C20_NoReservedIndexLeftUnless201 ==
  (ipc = "responded" /\ istatus # 201) =>
    \A index_name \in IndexNames : index_store[index_name] # "new"

\* ---------------------------------------------------------------------
\* Deleting a podcast (functions/v1/initialize.py, DELETE /v1/podcasts/{id})
\* ---------------------------------------------------------------------

\* max_attempts=3 of the retried delete_podcast_blob
DeleteMaxAttempts == 3

\* delete_podcast_blob / load_podcast_blob: candidates, in the order tried.
\* "prefixed" is podcasts/<id>.json, where save_podcast_blob writes the
\* metadata; "root" is <id>.json, the legacy location, which is also where
\* save_to_blob_storage keeps the podcast's dataset.
BlobCandidates == {"prefixed", "root"}

\* Owner of an index entry: no entry, the podcast being deleted, another one.
EntryOwners == {"none", "self", "other"}

DeleteInit ==
  /\ dpc = "received"
  /\ podcast_blobs \in SUBSET BlobCandidates
  /\ del_index \in [IndexNames -> EntryOwners]
  /\ old_known = {}
  /\ dattempt = 1
  /\ blob_report = "none"
  /\ dremoved = {}
  /\ dstatus = 0

\* lines 309-326: load_podcast_blob under retry; old_title and old_rss_url
\* are set when the load worked and the JSON has them
DeleteLoadOld ==
  /\ dpc = "received"
  /\ \E known \in SUBSET IndexNames :
       /\ podcast_blobs = {} => known = {}
       /\ old_known' = known
  /\ dpc' = "delete_blob"
  /\ UNCHANGED <<podcast_blobs, del_index, dattempt, blob_report, dremoved, dstatus>>
  /\ UNCHANGED exceptDelete

\* delete_podcast_blob, azure_blob.py 208-236: a candidate that is not there
\* is skipped, one whose delete raises is logged; the call returns normally
\* when at least one candidate was deleted, and raises RuntimeError otherwise
DeleteReport(deleted_now) == IF deleted_now # {} THEN "deleted" ELSE "RuntimeError"

\* lines 328-338: one attempt of the retried delete_podcast_blob
DeleteBlobAttempt ==
  /\ dpc = "delete_blob"
  /\ \E deleted_now \in SUBSET podcast_blobs :
       /\ podcast_blobs' = podcast_blobs \ deleted_now
       /\ IF DeleteReport(deleted_now) = "deleted"
          THEN /\ blob_report' = "deleted"
               /\ dpc' = "delete_indexes"
               /\ UNCHANGED <<dattempt, dstatus>>
          ELSE IF dattempt < DeleteMaxAttempts
          THEN /\ dattempt' = dattempt + 1
               /\ UNCHANGED <<dpc, blob_report, dstatus>>
          ELSE /\ blob_report' = "RuntimeError"
               /\ dpc' = "responded"
               /\ dstatus' = 500
               /\ UNCHANGED dattempt
  /\ UNCHANGED <<del_index, old_known, dremoved>>
  /\ UNCHANGED exceptDelete

\* delete_podcast_index(index_name, value, expected_podcast_id=podcast_id):
\* deletes the entry when it holds the expected id
DeletesEntry(entries, index_name, delete_works) ==
  delete_works /\ entries[index_name] = "self"

\* lines 340-354: the index deletions, each inside try/except, and the 200
DeleteIndexes ==
  /\ dpc = "delete_indexes"
  /\ \E works \in SUBSET IndexNames :
       LET gone == {index_name \in old_known :
                      DeletesEntry(del_index, index_name, index_name \in works)}
       IN /\ del_index' = [index_name \in IndexNames |->
                             IF index_name \in gone THEN "none" ELSE del_index[index_name]]
          /\ dremoved' = {<<index_name, del_index[index_name]>> : index_name \in gone}
  /\ dpc' = "responded"
  /\ dstatus' = 200
  /\ UNCHANGED <<podcast_blobs, old_known, dattempt, blob_report>>
  /\ UNCHANGED exceptDelete

DeleteNext == DeleteLoadOld \/ DeleteBlobAttempt \/ DeleteIndexes

InitDelete == DeleteInit /\ PredictIdle /\ FeaturesIdle /\ TrainIdle /\ MissingIdle /\ RetryIdle /\ ValidateIdle /\ SpikesIdle /\ CreateIdle /\ PredictGetIdle /\ ImpactIdle /\ SplitIdle /\ RaceIdle

SpecDelete == InitDelete /\ [][DeleteNext]_vars

\* C21: a podcast DELETE removes index entries only after the podcast blob
\* was deleted, and only entries holding the deleted podcast's id; when the
\* blob deletion fails the request returns 500 and both entries remain.
C21_IndexesRemovedOnlyAfterBlobDeleted ==
  /\ dremoved # {} =>
       /\ podcast_blobs = {}
       /\ \A removal \in dremoved : removal[2] = "self"
  /\ (dpc = "responded" /\ podcast_blobs # {}) =>
       /\ dstatus = 500
       /\ dremoved = {}

\* C22: after a successful predict POST, a predict GET for the same podcast
\* returns 200 with the saved result of that POST, including its
\* total_downloads.
C22_GetReturnsSavedPrediction ==
  (Answered /\ get_response.status # 0) =>
    /\ get_response.status = 200
    /\ get_response.result = response.result
    /\ get_response.total_downloads = response.total_downloads

\* ---------------------------------------------------------------------
\* Impact analysis request (functions/v1/impact.py), up to the parsing of
\* the stored record
\* ---------------------------------------------------------------------

\* Most data rows of a stored record.
MaxImpactRows == 3

\* The stored records: none, or a payload whose "data" has the given rows
\* (Downloads, Episodes Released).
ImpactRecords ==
  {[exists |-> FALSE, data |-> <<>>]} \cup
  {[exists |-> TRUE, data |-> rows] :
     rows \in UNION {[1..n -> (0..1) \X (0..1)] : n \in 0..MaxImpactRows}}

ImpactInit ==
  /\ apc = "received"
  /\ impact_method \in {"GET", "POST"}
  /\ impact_podcast_id \in {"", "pod-1"}
  /\ impact_record \in ImpactRecords
  /\ impact_json = [type |-> "none"]
  /\ impact_status = 0

\* lines 25-35: method and podcast_id
ImpactValidate ==
  /\ apc = "received"
  /\ IF impact_method # "GET"
     THEN apc' = "responded" /\ impact_status' = 405
     ELSE IF impact_podcast_id = ""
     THEN apc' = "responded" /\ impact_status' = 400
     ELSE apc' = "load" /\ UNCHANGED impact_status
  /\ UNCHANGED <<impact_method, impact_podcast_id, impact_record, impact_json>>
  /\ UNCHANGED exceptImpact

\* load_json_from_blob(token), utils/regression.py 9-24: returns what
\* retry_with_backoff returns, the wrapper function; load_blob is not called
LoadJsonFromBlob(record) == [type |-> "function"]

\* lines 37-43: the load; an exception gives 404
ImpactLoad ==
  /\ apc = "load"
  /\ LET returned == LoadJsonFromBlob(impact_record)
     IN IF returned.type = "raises"
        THEN /\ apc' = "responded"
             /\ impact_status' = 404
             /\ UNCHANGED impact_json
        ELSE /\ apc' = "parse"
             /\ impact_json' = returned
             /\ UNCHANGED impact_status
  /\ UNCHANGED <<impact_method, impact_podcast_id, impact_record>>
  /\ UNCHANGED exceptImpact

\* lines 45-57: json.loads(json_data) raises TypeError on anything that is
\* not a str, and every exception of this block gives 400; no data gives 404
ImpactParse ==
  /\ apc = "parse"
  /\ IF impact_json.type # "str"
     THEN apc' = "responded" /\ impact_status' = 400
     ELSE IF impact_json.data = <<>>
     THEN apc' = "responded" /\ impact_status' = 404
     ELSE apc' = "analysis" /\ UNCHANGED impact_status
  /\ UNCHANGED <<impact_method, impact_podcast_id, impact_record, impact_json>>
  /\ UNCHANGED exceptImpact

ImpactNext == ImpactValidate \/ ImpactLoad \/ ImpactParse

InitImpact == ImpactInit /\ PredictIdle /\ FeaturesIdle /\ TrainIdle /\ MissingIdle /\ RetryIdle /\ ValidateIdle /\ SpikesIdle /\ CreateIdle /\ DeleteIdle /\ PredictGetIdle /\ SplitIdle /\ RaceIdle

SpecImpact == InitImpact /\ [][ImpactNext]_vars

\* C23: an impact GET for a podcast id that has no stored record returns 404.
C23_ImpactMissingPodcastGives404 ==
  (apc = "responded" /\ impact_method = "GET" /\ impact_podcast_id # ""
     /\ ~impact_record.exists) =>
    impact_status = 404

\* ---------------------------------------------------------------------
\* Training: cleaned rows, cross-validation folds and the train/test split
\* (functions/v1/regression.py 60-300)
\* ---------------------------------------------------------------------

\* cv=5 of RFECV and of RidgeCV
CvFolds == 5

\* Orders in which the records of a daily series are stored: by date, by
\* date descending, and by date with the first record moved to the end.
StoredOrders == {"ascending", "descending", "rotated"}

DateAt(order, n, k) ==
  CASE order = "ascending" -> k
    [] order = "descending" -> n + 1 - k
    [] order = "rotated" -> IF k = n THEN 1 ELSE k + 1

\* json_data["data"]: one record per day 1..n, Downloads as uploaded
SplitRecords ==
  {[k \in 1..Len(series) |->
      [Date |-> DateAt(order, Len(series), k), Downloads |-> series[k]]] :
     series \in TrainSeries, order \in StoredOrders}

SplitInit ==
  /\ qpc = "loaded"
  /\ split_data \in SplitRecords
  /\ split_clean = <<>>
  /\ cv_folds = 0
  /\ split_train = <<>>
  /\ split_test = <<>>
  /\ qstatus = 0

\* line 178: predictors = [col for col in predictors if df[col].nunique() > 1]
\* over the columns that can hold NaN; nunique() does not count NaN
VaryingPredictors(table) ==
  {c \in TrainFeatureCols :
     Cardinality({table[k][c] : k \in 1..Len(table)} \ {NaN}) > 1}

\* line 193: df = df.dropna(subset=predictors + [target_col]); the features
\* were computed on the rows in stored order (df is not sorted before)
DropNaRows(records) ==
  LET table == TrainFeatureTable([k \in 1..Len(records) |-> records[k].Downloads])
      predictors == VaryingPredictors(table)
      kept == SortedList({k \in 1..Len(records) :
                            \A c \in predictors : table[k][c] # NaN})
  IN [j \in 1..Len(kept) |-> records[kept[j]]]

\* lines 60-226: features, predictor filtering and cleaning
SplitPrepare ==
  /\ qpc = "loaded"
  /\ split_clean' = DropNaRows(split_data)
  /\ qpc' = "select"
  /\ UNCHANGED <<split_data, cv_folds, split_train, split_test, qstatus>>
  /\ UNCHANGED exceptSplit

\* KFold(n_splits).split(X) raises ValueError when n_splits > n_samples
KFoldSplits(n_splits, samples) == n_splits <= samples

\* lines 247-273: RFECV(cv=5) and RidgeCV(cv=5) on the cleaned rows; the
\* ValueError reaches the handler's except clause (lines 365-367): 500
SplitCrossValidate ==
  /\ qpc = "select"
  /\ cv_folds' = CvFolds
  /\ IF KFoldSplits(CvFolds, Len(split_clean))
     THEN /\ qpc' = "split"
          /\ UNCHANGED qstatus
     ELSE /\ qpc' = "responded"
          /\ qstatus' = 500
  /\ UNCHANGED <<split_data, split_clean, split_train, split_test>>
  /\ UNCHANGED exceptSplit

\* lines 279-284: mask = std_residuals.abs() <= 3. Among n residuals none
\* can be standardized beyond (n - 1) / sqrt(n), so a row can be masked out
\* only when (n - 1)^2 > 9 n.
OutlierSets(n) ==
  IF (n - 1) * (n - 1) > 9 * n
  THEN {{}} \cup {{k} : k \in 1..n}
  ELSE {{}}

\* X_scaled[mask], y[mask]
Masked(rows, outlier_rows) ==
  LET kept == SortedList({k \in 1..Len(rows) : k \notin outlier_rows})
  IN [j \in 1..Len(kept) |-> rows[kept[j]]]

\* n_train = int(len(df_masked) * 0.8)
NTrain(n) == (n * 8) \div 10

\* lines 286-296: df_masked is sorted by Date, and X_scaled and y, which are
\* not, are sliced at n_train
SplitTrainTest ==
  /\ qpc = "split"
  /\ \E outlier_rows \in OutlierSets(Len(split_clean)) :
       LET rows == Masked(split_clean, outlier_rows)
           n_train == NTrain(Len(rows))
       IN /\ split_train' = SubSeq(rows, 1, n_train)
          /\ split_test' = SubSeq(rows, n_train + 1, Len(rows))
  /\ qpc' = "responded"
  /\ qstatus' = 200
  /\ UNCHANGED <<split_data, split_clean, cv_folds>>
  /\ UNCHANGED exceptSplit

SplitNext == SplitPrepare \/ SplitCrossValidate \/ SplitTrainTest

InitSplit == SplitInit /\ PredictIdle /\ FeaturesIdle /\ TrainIdle /\ MissingIdle /\ RetryIdle /\ ValidateIdle /\ SpikesIdle /\ CreateIdle /\ DeleteIdle /\ PredictGetIdle /\ ImpactIdle /\ RaceIdle

SpecSplit == InitSplit /\ [][SplitNext]_vars

\* C24: training never uses more cross-validation folds than there are
\* training-eligible rows, and a request on a tiny dataset (two eligible
\* rows or more) completes with at least one training and one test row.
C24_FoldsBoundedByRows ==
  /\ cv_folds # 0 => cv_folds <= Len(split_clean)
  /\ (qpc = "responded" /\ Len(split_clean) >= 2) =>
       /\ qstatus = 200
       /\ Len(split_train) >= 1
       /\ Len(split_test) >= 1

DatesOf(rows) == {rows[k].Date : k \in 1..Len(rows)}

\* C25: the training split holds the floor(0.8 n) cleaned rows with the
\* earliest dates, the test split the rest, and every training date is
\* earlier than every test date, whatever the stored order.
C25_SplitIsChronological ==
  (qpc = "responded" /\ qstatus = 200) =>
    LET n == Len(split_train) + Len(split_test)
    IN /\ Len(split_train) = (8 * n) \div 10
       /\ \A d \in DatesOf(split_train), e \in DatesOf(split_test) : d < e

\* ---------------------------------------------------------------------
\* Concurrent create-podcast POSTs (functions/v1/initialize.py 77-152,
\* utils/azure_blob.py 56-62, 247-305)
\* ---------------------------------------------------------------------

\* The concurrent requests; each stands for the podcast_id it generates.
Creators == {"req-1", "req-2"}

\* What the requests have in common.
Shares == {"title", "rss", "both"}

\* The indexes in which the requests meet.
SharedIndexes == IF cshares = "both" THEN IndexNames ELSE {cshares}

\* _index_blob_name(index_name, value): one blob per normalized value; the
\* value of a request is the shared one or its own
IndexBlobName(r, index_name) ==
  <<index_name, IF cshares \in {index_name, "both"} THEN "shared" ELSE r>>

IndexBlobNames == IndexNames \X ({"shared"} \cup Creators)

NoRollback == [names |-> <<>>, then |-> 0]

\* The shared values may be indexed already, for an earlier podcast.
RaceInit ==
  /\ cshares \in Shares
  /\ \E earlier \in {"none", "pod-1"} :
       cindex = [b \in IndexBlobNames |->
                   IF b[2] = "shared" /\ b[1] \in SharedIndexes
                   THEN earlier ELSE "none"]
  /\ cpc = [r \in Creators |-> "lookup title"]
  /\ cattempt = [r \in Creators |-> 1]
  /\ creserved = [r \in Creators |-> {}]
  /\ crollback = [r \in Creators |-> NoRollback]
  /\ cstatus = [r \in Creators |-> 0]
  /\ csaved = {}

\* the handler returns after deleting the index entries in names
Unwind(r, names, status) ==
  /\ crollback' = [crollback EXCEPT ![r] = [names |-> names, then |-> status]]
  /\ cpc' = [cpc EXCEPT ![r] = "rollback"]

\* lines 77-84: get_podcast_id_from_index(index_name, ...); an entry gives
\* 409, a read that raises 500
RaceLookup(r, index_name) ==
  /\ cpc[r] = "lookup " \o index_name
  /\ \E lookup_raises \in BOOLEAN :
       IF lookup_raises THEN Unwind(r, <<>>, 500)
       ELSE IF cindex[IndexBlobName(r, index_name)] # "none"
       THEN Unwind(r, <<>>, 409)
       ELSE /\ cpc' = [cpc EXCEPT ![r] =
                         IF index_name = "title" THEN "lookup rss" ELSE "reserve title"]
            /\ UNCHANGED crollback
  /\ UNCHANGED <<cattempt, creserved, cstatus, cindex, cshares, csaved>>
  /\ UNCHANGED exceptRace

\* upload_blob(..., overwrite=False) raises ResourceExistsError
UploadConflicts_Overwrites(entries, blob_name) == FALSE

UploadConflicts(entries, blob_name) == entries[blob_name] # "none"

\* lines 92-119: one attempt of the retried create_podcast_index(index_name,
\* value, podcast_id, overwrite=False). The upload creates the blob or finds
\* it; a conflict deletes the title entry when this request reserved it and
\* answers 409; a RuntimeError is retried, then 500.
RaceReserve(r, index_name) ==
  /\ cpc[r] = "reserve " \o index_name
  /\ \E upload_raises \in BOOLEAN, read_raises \in BOOLEAN :
       IF upload_raises
       THEN /\ IF cattempt[r] < IndexMaxAttempts
               THEN /\ cattempt' = [cattempt EXCEPT ![r] = cattempt[r] + 1]
                    /\ UNCHANGED <<cpc, crollback>>
               ELSE /\ Unwind(r, <<>>, 500)
                    /\ UNCHANGED cattempt
            /\ UNCHANGED <<cindex, creserved>>
       ELSE IF UploadConflicts(cindex, IndexBlobName(r, index_name))
       THEN /\ IF read_raises
               THEN Unwind(r, <<>>, 500)
               ELSE Unwind(r, IF "title" \in creserved[r] THEN <<"title">> ELSE <<>>, 409)
            /\ UNCHANGED <<cindex, creserved, cattempt>>
       ELSE /\ cindex' = [cindex EXCEPT ![IndexBlobName(r, index_name)] = r]
            /\ creserved' = [creserved EXCEPT ![r] = creserved[r] \cup {index_name}]
            /\ cattempt' = [cattempt EXCEPT ![r] = 1]
            /\ cpc' = [cpc EXCEPT ![r] =
                         IF index_name = "title" THEN "reserve rss" ELSE "save"]
            /\ UNCHANGED crollback
  /\ UNCHANGED <<cstatus, cshares, csaved>>
  /\ UNCHANGED exceptRace

\* lines 121-141: one attempt of the retried save_podcast_blob; when the
\* retries are used up the reserved entries are deleted, then 500
RaceSave(r) ==
  /\ cpc[r] = "save"
  /\ \E upload_raises \in BOOLEAN :
       IF upload_raises
       THEN /\ IF cattempt[r] < IndexMaxAttempts
               THEN /\ cattempt' = [cattempt EXCEPT ![r] = cattempt[r] + 1]
                    /\ UNCHANGED <<cpc, crollback>>
               ELSE /\ Unwind(r, <<"title", "rss">>, 500)
                    /\ UNCHANGED cattempt
            /\ UNCHANGED csaved
       ELSE /\ csaved' = csaved \cup {r}
            /\ Unwind(r, <<>>, 201)
            /\ UNCHANGED cattempt
  /\ UNCHANGED <<creserved, cstatus, cindex, cshares>>
  /\ UNCHANGED exceptRace

\* delete_podcast_index(..., expected_podcast_id=podcast_id), first half: the
\* entry is read; it returns False when there is none or it is another
\* podcast's, and a read that raises is swallowed by the handler
RaceRollbackRead(r) ==
  /\ cpc[r] = "rollback"
  /\ crollback[r].names # <<>>
  /\ \E read_raises \in BOOLEAN :
       IF read_raises \/ cindex[IndexBlobName(r, Head(crollback[r].names))] # r
       THEN /\ crollback' = [crollback EXCEPT ![r].names = Tail(@)]
            /\ UNCHANGED cpc
       ELSE /\ cpc' = [cpc EXCEPT ![r] = "rollback delete"]
            /\ UNCHANGED crollback
  /\ UNCHANGED <<cattempt, creserved, cstatus, cindex, cshares, csaved>>
  /\ UNCHANGED exceptRace

\* second half: blob_client.delete_blob() removes whatever the blob holds by
\* then; a failure is swallowed by the handler
RaceRollbackDelete(r) ==
  /\ cpc[r] = "rollback delete"
  /\ \E delete_works \in BOOLEAN :
       IF delete_works
       THEN cindex' = [cindex EXCEPT ![IndexBlobName(r, Head(crollback[r].names))] = "none"]
       ELSE UNCHANGED cindex
  /\ crollback' = [crollback EXCEPT ![r].names = Tail(@)]
  /\ cpc' = [cpc EXCEPT ![r] = "rollback"]
  /\ UNCHANGED <<cattempt, creserved, cstatus, cshares, csaved>>
  /\ UNCHANGED exceptRace

\* return error_response(...) / json_response(response_data, 201)
RaceRespond(r) ==
  /\ cpc[r] = "rollback"
  /\ crollback[r].names = <<>>
  /\ cstatus' = [cstatus EXCEPT ![r] = crollback[r].then]
  /\ cpc' = [cpc EXCEPT ![r] = "responded"]
  /\ UNCHANGED <<cattempt, creserved, crollback, cindex, cshares, csaved>>
  /\ UNCHANGED exceptRace

RaceNext ==
  \/ \E r \in Creators, index_name \in IndexNames : RaceLookup(r, index_name)
  \/ \E r \in Creators, index_name \in IndexNames : RaceReserve(r, index_name)
  \/ \E r \in Creators : RaceSave(r)
  \/ \E r \in Creators : RaceRollbackRead(r)
  \/ \E r \in Creators : RaceRollbackDelete(r)
  \/ \E r \in Creators : RaceRespond(r)

InitRace == RaceInit /\ PredictIdle /\ FeaturesIdle /\ TrainIdle /\ MissingIdle /\ RetryIdle /\ ValidateIdle /\ SpikesIdle /\ CreateIdle /\ DeleteIdle /\ PredictGetIdle /\ ImpactIdle /\ SplitIdle

SpecRace == InitRace /\ [][RaceNext]_vars

Created == {r \in Creators : cstatus[r] = 201}

\* C28: of concurrent create-podcast requests that share a title or an
\* rss_url at most one returns 201, and once all have finished the index
\* entry of the shared value points to the podcast_id of the request that
\* returned 201.
C28_AtMostOneCreatedAndIndexPointsToIt ==
  /\ Cardinality(Created) <= 1
  /\ (\A r \in Creators : cpc[r] = "responded") =>
       \A r \in Created, index_name \in SharedIndexes :
         cindex[<<index_name, "shared">>] = r

\* Both requests passed the lookups and reserved in turn; one was created,
\* the other found the shared entry and was answered 409.
C28_Witness ==
  /\ \A r \in Creators : cpc[r] = "responded"
  /\ \E r, other \in Creators :
       /\ cstatus[r] = 201
       /\ cstatus[other] = 409
       /\ creserved[other] # {}
       /\ \A index_name \in SharedIndexes : cindex[<<index_name, "shared">>] = r

====
